---- MODULE Spec2Model ----
(***************************************************************************)
(* A model of the Spice compiler's driver pipeline (spice-lang/spice/      *)
(* compilation/pipeline.py) and of its final checker (spice-lang/spice/    *)
(* compilation/checks/final_checker.py).                                   *)
(*                                                                         *)
(* Spec        : one process running from_cli one or more times: walk      *)
(*               (tokenize, parse, resolve_imports, recursion over the     *)
(*               .spc imports) followed by verify_and_write.  The file     *)
(*               system and the contents of the files are inputs; they are *)
(*               fixed the first time the program looks at them.           *)
(* SpecFinal   : Parser.parse building a module body of final              *)
(*               declarations, assignments, functions and classes with     *)
(*               methods, followed by FinalChecker.check.                  *)
(* SpecOverride: the same parser and checker on modules of classes with    *)
(*               bases and (final) methods.                                *)
(* SpecIface   : units of interfaces and classes, InterfaceChecker.check.  *)
(* SpecOverload: units of functions and classes with overloaded methods,   *)
(*               MethodOverloadResolver.check (spice/spice/compilation).   *)
(* SpecSymbols : units of classes, data classes, enums and interfaces,     *)
(*               SymbolTableBuilder.check, then InterfaceChecker.check.    *)
(* SpecTypes   : a class with overloads of a method, generic or not, and   *)
(*               calls of it; SymbolTableBuilder.check, TypeChecker.check. *)
(* SpecAssign  : units of assignments, the same two checks.                *)
(* SpecFlags   : the tokens of a statement that starts with "[", and       *)
(*               Parser.parse_statement on them.                           *)
(* SpecNested  : a function with a final declaration and an if, while,     *)
(*               for or switch statement, FinalChecker.check.              *)
(* SpecResolved: classes with final overloads, MethodOverloadResolver      *)
(*               .check, then FinalChecker.check on the renamed tree.      *)
(* SpecImplemented: an interface and a class of overloads, the resolver,   *)
(*               then InterfaceChecker.check on the renamed tree.          *)
(* SpecInherit : classes with bases, FinalChecker.check run step by step   *)
(*               with its call stack.                                      *)
(* SpecScopes  : a class and a function through SymbolTableBuilder, the    *)
(*               resolver and TypeChecker, in verify_and_write's order.    *)
(* SpecCalls   : a class A and functions calling its method on a local     *)
(*               variable; SymbolTableBuilder.check, TypeChecker.check.    *)
(* The expression parser is not part of the sources at hand: an assignment *)
(* statement "x = <literal>" is taken to arrive as an ExpressionStatement  *)
(* holding an AssignmentExpression that carries its position.              *)
(***************************************************************************)
EXTENDS Integers, Sequences, FiniteSets, TLC

VARIABLES
    \* ---- the environment of the pipeline (inputs, fixed once looked at)
    fs,                  \* [dir, module] -> "unk" | "none" | "spc" | "py"
    src,                 \* module -> "unk" | "bad" | its import statements
    diag,                \* module -> pass -> "unk" | "ok" | "err"
    flags,               \* CLI_FLAGS: check, no_final_check
    \* ---- process-wide state of pipeline.py
    ALL_IMPORTED_PATHS,
    LOOKUP_PATHS,
    \* ---- one compilation (from_cli)
    pc,                  \* "idle" | "walk" | "verify" | "done"
    files,               \* the SpiceFile objects of this compilation
    wstack,              \* the activations of walk
    vstack,              \* the activations of verify_and_write
    log,                 \* what the passes did, in order
    outcomes,            \* how each compilation of this process ended
    \* ---- parser and final checker
    ast,                 \* Module.body
    fpc,                 \* "idle" | "parse" | "resolved" | "check" | "done"
    current_scope,       \* FinalChecker.current_scope
    final_variables,     \* FinalChecker.final_variables
    errors,              \* FinalChecker.errors
    class_nodes,         \* FinalChecker.class_nodes
    final_methods_by_class,
    result,              \* what check() returned: "none" | "true" | "false"
    call_stack,          \* the activations of a check that runs step by step
    \* ---- the other checks of a unit
    interface_checker,   \* the InterfaceChecker object and what check() returned
    overload_resolver,   \* the MethodOverloadResolver object, the unit it
                         \* resolved and what check() returned
    symbol_table,        \* the SymbolTableBuilder object with its table
    type_checker,        \* the TypeChecker object and what check() returned
    parser               \* the Parser object: tokens, current, and what
                         \* parse_statement made of the first statement

pvars == <<fs, src, diag, flags, ALL_IMPORTED_PATHS, LOOKUP_PATHS, pc, files,
           wstack, vstack, log, outcomes>>
fvars == <<ast, fpc, current_scope, final_variables, errors, class_nodes,
           final_methods_by_class, result, call_stack>>
cvars == <<interface_checker, overload_resolver, symbol_table, type_checker, parser>>
vars == <<pvars, fvars, cvars>>

----------------------------------------------------------------------------
(* Bounds *)

\* import statements in the source files, all files together
MaxImports == 3
\* compilations run by one process
MaxRuns == 2
\* statements, functions, classes and methods of a unit, all together
MaxNodes == 4
\* declarations, implements entries, signatures, methods and parameters of a
\* unit of interfaces and classes, all together
MaxIfaceNodes == 6
\* classes, functions, methods and parameters of a unit of overloads, all
\* together
MaxOverloadNodes == 6
\* declarations, fields, methods and parameters of a unit of declarations,
\* all together
MaxSymbolNodes == 5
\* nodes (methods, parameters, statements, arguments) in a unit given to the
\* type checker
MaxTypeNodes == 7
\* statements after the class in a unit given to the type checker
MaxTypeStatements == 3
\* nodes (declarations, parameters, statements) in a unit of assignments given
\* to the type checker
MaxAssignNodes == 3
\* elements between the brackets that start a statement
MaxFlagValues == 2
\* methods in the classes of a unit, all together
MaxMethods == 2
\* base names in the class headers of a unit, all together
MaxBases == 2

----------------------------------------------------------------------------
(* Generic helpers *)

Range(s) == {s[i] : i \in 1..Len(s)}

SeqsUpTo(S, n) == UNION {[1..k -> S] : k \in 0..n}

\* list.remove(x): drops the first element equal to x
RECURSIVE RemoveFirst(_, _)
RemoveFirst(s, x) ==
    IF s = <<>> THEN <<>>
    ELSE IF Head(s) = x THEN Tail(s)
    ELSE <<Head(s)>> \o RemoveFirst(Tail(s), x)

----------------------------------------------------------------------------
(* The pipeline: pipeline.py *)

\* module names a source file can import, and the file the compiler is given
Mods == {"A", "B", "C"}
EntryPath == <<"cwd", "A">>
\* sys.builtin_module_names: imports of these are never looked up
Builtins == {"sys"}
\* the directories walk() offers as lookup paths, in its order: the source
\* path itself (a file here: nothing is found below it), the working
\* directory, the site-packages/stdlib directories
WalkLookupPaths == <<"root", "cwd", "site">>
Dirs == {"cwd", "site"}
Passes == {"overload", "types", "iface", "final"}

\* what a directory holds for a module: a .spc candidate, only a .py one, none
kind_of(fsv, dir, m) == IF dir \in Dirs THEN fsv[<<dir, m>>] ELSE "none"

\* add_and_check_lookup_path; every directory of WalkLookupPaths exists
add_and_check_lookup_path(lookup, path) ==
    IF path \in Range(lookup) THEN lookup ELSE Append(lookup, path)

RECURSIVE add_lookup_paths(_, _)
add_lookup_paths(lookup, cands) ==
    IF cands = <<>> THEN lookup
    ELSE add_lookup_paths(add_and_check_lookup_path(lookup, Head(cands)), Tail(cands))

\* a check of the imported paths that never raises
add_and_check_import_path_no_raise(paths, path) ==
    [raised |-> FALSE, paths |-> Append(paths, path)]

\* add_and_check_import_path: raises when the path was recorded before
add_and_check_import_path(paths, path) ==
    IF path \in Range(paths)
    THEN [raised |-> TRUE, paths |-> paths]
    ELSE [raised |-> FALSE, paths |-> Append(paths, path)]

\* Python's list iterator: after the body ran for index i it moves to i + 1,
\* whether or not the body removed an element of the list
next_index(i, removed) == i + 1

\* "for stmt in left_to_resolve" against one lookup path, from index i
RECURSIVE resolve_in_path(_, _, _, _)
resolve_in_path(st, dir, i, fsv) ==
    IF st.raised \/ i > Len(st.left) THEN st
    ELSE LET stmt == st.left[i]
             kind == kind_of(fsv, dir, stmt)
             path == <<dir, stmt>>
             r    == add_and_check_import_path(st.paths, path)
         IN IF kind \notin {"spc", "py"}
            THEN resolve_in_path([st EXCEPT !.asked = @ \cup {path}], dir,
                                 next_index(i, FALSE), fsv)
            ELSE IF r.raised THEN [st EXCEPT !.raised = TRUE, !.asked = @ \cup {path}]
            ELSE resolve_in_path(
                    [st EXCEPT !.paths = r.paths,
                               !.asked = @ \cup {path},
                               !.left = RemoveFirst(st.left, stmt),
                               !.spc = IF kind = "spc" THEN Append(@, path) ELSE @,
                               !.py = IF kind = "py" THEN Append(@, path) ELSE @],
                    dir, next_index(i, TRUE), fsv)

\* "for path in lookup"
RECURSIVE resolve_in_paths(_, _, _, _)
resolve_in_paths(st, lookup, k, fsv) ==
    IF st.raised \/ k > Len(lookup) THEN st
    ELSE resolve_in_paths(resolve_in_path(st, lookup[k], 1, fsv), lookup, k + 1, fsv)

\* SpicePipeline.resolve_imports on the import statements of one file
resolve_imports(imports, lookup, paths, fsv) ==
    LET left0 == SelectSeq(imports, LAMBDA m : m \notin Builtins)
        st == resolve_in_paths([left |-> left0, paths |-> paths, spc |-> <<>>,
                                py |-> <<>>, raised |-> FALSE, asked |-> {}],
                               lookup, 1, fsv)
    IN [status |-> IF st.raised THEN "circular_import"
                   ELSE IF Len(st.left) > 0 THEN "unresolved_imports"
                   ELSE "ok",
        paths |-> st.paths, spc |-> st.spc, py |-> st.py, left |-> st.left,
        asked |-> st.asked]

\* SpiceFile.__init__ / _init_defaults
SpiceFile(path) ==
    [path |-> path, parsed |-> FALSE, imports |-> <<>>, spc_imports |-> <<>>,
     py_imports |-> <<>>]

ImportLists == SeqsUpTo(Mods \cup Builtins, MaxImports)
Contents == {[state |-> "bad", imports |-> <<>>]}
            \cup {[state |-> "ok", imports |-> il] : il \in ImportLists}
Unknown == [state |-> "unk", imports |-> <<>>]

\* the import statements of the files read so far
RECURSIVE ImportsIn(_, _)
ImportsIn(srcv, ms) ==
    IF ms = {} THEN 0
    ELSE LET m == CHOOSE x \in ms : TRUE
         IN Len(srcv[m].imports) + ImportsIn(srcv, ms \ {m})

\* the modules named so far by the files read
Named == {"A"} \cup UNION {Range(src[m].imports) : m \in Mods}

\* "B" and "C" are interchangeable names: of the two, the files name "B" first
NamesInOrder(il) ==
    \A i \in 1..Len(il) :
        il[i] = "C" => "C" \in Named \/ "B" \in Named \/ \E j \in 1..(i - 1) : il[j] = "B"

\* reading a file the first time fixes its content
Reads(m, c) ==
    IF src[m] = Unknown
    THEN /\ c \in Contents
         /\ Len(c.imports) <= MaxImports - ImportsIn(src, Mods)
         /\ NamesInOrder(c.imports)
    ELSE c = src[m]

\* looking a module up in a directory the first time fixes what the directory
\* holds for it: rv is what the directories hold where nobody looked yet, and
\* of it only what resolve_imports asked for becomes known
NotLooked(ms) == {p \in Dirs \X ms : fs[p] = "unk"}
Holding(rv) == [p \in Dirs \X Mods |-> IF p \in DOMAIN rv THEN rv[p] ELSE fs[p]]
Looked(rv, asked) ==
    [p \in Dirs \X Mods |-> IF p \in DOMAIN rv /\ p \in asked THEN rv[p] ELSE fs[p]]

\* the run ends with an exception that from_cli does not catch
Raise(what) ==
    /\ pc' = "done"
    /\ outcomes' = Append(outcomes, what)
    /\ wstack' = <<>>
    /\ vstack' = <<>>

PInit ==
    /\ fs = [p \in Dirs \X Mods |-> IF p = EntryPath THEN "spc" ELSE "unk"]
    /\ src = [m \in Mods |-> Unknown]
    /\ diag = [m \in Mods |-> [p \in Passes |-> "unk"]]
    /\ flags \in [check : BOOLEAN, no_final_check : BOOLEAN]
    /\ ALL_IMPORTED_PATHS = <<>>
    /\ LOOKUP_PATHS = <<>>
    /\ pc = "idle"
    /\ files = <<>>
    /\ wstack = <<>>
    /\ vstack = <<>>
    /\ log = <<>>
    /\ outcomes = <<>>

\* from_cli: a compilation of the entry file starts (walk with spc_file None
\* creates the entry's SpiceFile)
from_cli ==
    /\ pc \in {"idle", "done"}
    /\ Len(outcomes) < MaxRuns
    /\ pc' = "walk"
    /\ files' = <<SpiceFile(EntryPath)>>
    /\ wstack' = <<[fid |-> 1, next |-> 0]>>
    /\ vstack' = <<>>
    /\ log' = <<>>
    /\ UNCHANGED <<fs, src, diag, flags, ALL_IMPORTED_PATHS, LOOKUP_PATHS, outcomes>>

\* walk up to its loop: the lookup paths, tokenize, parse, resolve_imports
walk ==
    /\ pc = "walk"
    /\ wstack # <<>>
    /\ LET top == wstack[Len(wstack)]
           f == files[top.fid]
           m == f.path[2]
           lookup == add_lookup_paths(LOOKUP_PATHS, WalkLookupPaths)
       IN /\ top.next = 0
          /\ LOOKUP_PATHS' = lookup
          /\ \E c \in Contents \cup {src[m]} :
                /\ Reads(m, c)
                /\ src' = [src EXCEPT ![m] = c]
                /\ IF c.state = "bad"
                   THEN /\ Raise("syntax_error")
                        /\ UNCHANGED <<fs, ALL_IMPORTED_PATHS, files>>
                   ELSE \E rv \in [NotLooked(Range(c.imports) \cap Mods)
                                     -> {"none", "spc", "py"}] :
                          /\ LET r == resolve_imports(c.imports, lookup,
                                                      ALL_IMPORTED_PATHS, Holding(rv))
                                 n == Len(files)
                                 me == [f EXCEPT !.parsed = TRUE,
                                                 !.imports = c.imports,
                                                 !.spc_imports = [i \in 1..Len(r.spc) |-> n + i],
                                                 !.py_imports = r.py]
                             IN /\ \A p \in DOMAIN rv : p \notin r.asked => rv[p] = "none"
                                /\ fs' = Looked(rv, r.asked)
                                /\ ALL_IMPORTED_PATHS' = r.paths
                                /\ IF r.status = "ok"
                                   THEN /\ files' = [files EXCEPT ![top.fid] = me]
                                                    \o [i \in 1..Len(r.spc) |-> SpiceFile(r.spc[i])]
                                        /\ wstack' = [wstack EXCEPT ![Len(wstack)].next = 1]
                                        /\ UNCHANGED <<pc, outcomes, vstack>>
                                   ELSE /\ Raise(r.status)
                                        /\ UNCHANGED files
    /\ UNCHANGED <<diag, flags, log>>

\* walk's loop: "for imported in spc_file.spc_imports: walk(root, imported)"
walk_imported ==
    /\ pc = "walk"
    /\ wstack # <<>>
    /\ LET top == wstack[Len(wstack)]
           f == files[top.fid]
       IN /\ top.next >= 1
          /\ top.next <= Len(f.spc_imports)
          /\ wstack' = Append([wstack EXCEPT ![Len(wstack)].next = top.next + 1],
                              [fid |-> f.spc_imports[top.next], next |-> 0])
    /\ UNCHANGED <<fs, src, diag, flags, ALL_IMPORTED_PATHS, LOOKUP_PATHS, pc, files,
                   vstack, log, outcomes>>

\* walk returns; the outermost walk returns the tree to from_cli, which calls
\* verify_and_write on it
walk_return ==
    /\ pc = "walk"
    /\ wstack # <<>>
    /\ LET top == wstack[Len(wstack)]
           f == files[top.fid]
       IN /\ top.next > Len(f.spc_imports)
          /\ wstack' = SubSeq(wstack, 1, Len(wstack) - 1)
          /\ IF Len(wstack) = 1
             THEN /\ pc' = "verify"
                  /\ vstack' = <<[fid |-> 1, stage |-> "symbols", next |-> 1]>>
             ELSE UNCHANGED <<pc, vstack>>
    /\ UNCHANGED <<fs, src, diag, flags, ALL_IMPORTED_PATHS, LOOKUP_PATHS, files,
                   log, outcomes>>

\* ---- verify_and_write

\* the order of the passes in verify_and_write
stage_after(stage) ==
    CASE stage = "symbols"  -> "overload"
      [] stage = "overload" -> "types"
      [] stage = "types"    -> "iface"
      [] stage = "iface"    -> "final"
      [] stage = "final"    -> "emit"
      [] OTHER              -> "imports"

\* a pass whose errors are never fatal
check_is_fatal_never(passed) == FALSE

\* "if not checker.check(file): raise SpiceCompileTimeError"
check_is_fatal(passed) == ~passed

\* a final check whose errors are fatal whatever the flag says
final_check_is_fatal_always(passed, fl) == ~passed

\* "if (not final_checker.check(file) and not flags.no_final_check): raise"
final_check_is_fatal(passed, fl) == ~passed /\ ~fl.no_final_check

VTop == vstack[Len(vstack)]
VUnit == files[VTop.fid]
AtStage(stage) == pc = "verify" /\ vstack # <<>> /\ VTop.stage = stage
Logged(ev) == log' = Append(log, [unit |-> VTop.fid, ev |-> ev])
Advance == vstack' = [vstack EXCEPT ![Len(vstack)].stage = stage_after(VTop.stage)]

\* the check of a pass on the unit's module: its result is an input, the same
\* every time the same file is checked
Checked(pass, passed) ==
    LET m == VUnit.path[2]
        r == IF passed THEN "ok" ELSE "err"
    IN /\ diag[m][pass] \in {"unk", r}
       /\ diag' = [diag EXCEPT ![m][pass] = r]

\* a pass whose errors raise SpiceCompileTimeError
GatedPass(pass) ==
    /\ AtStage(pass)
    /\ Logged(pass)
    /\ \E passed \in BOOLEAN :
          /\ Checked(pass, passed)
          /\ IF check_is_fatal(passed)
             THEN Raise("compile_time_error")
             ELSE Advance /\ UNCHANGED <<pc, outcomes, wstack>>
    /\ UNCHANGED <<fs, src, flags, ALL_IMPORTED_PATHS, LOOKUP_PATHS, files>>

\* symbol_builder.check(file): its result is not looked at
symbol_builder_check ==
    /\ AtStage("symbols")
    /\ Logged("symbols")
    /\ Advance
    /\ UNCHANGED <<fs, src, diag, flags, ALL_IMPORTED_PATHS, LOOKUP_PATHS, pc, files,
                   wstack, outcomes>>

overload_resolver_check == GatedPass("overload")

type_checker_check == GatedPass("types")

interface_checker_check == GatedPass("iface")

final_checker_check ==
    /\ AtStage("final")
    /\ Logged("final")
    /\ \E passed \in BOOLEAN :
          /\ Checked("final", passed)
          /\ IF final_check_is_fatal(passed, flags)
             THEN Raise("compile_time_error")
             ELSE Advance /\ UNCHANGED <<pc, outcomes, wstack>>
    /\ UNCHANGED <<fs, src, flags, ALL_IMPORTED_PATHS, LOOKUP_PATHS, files>>

\* transform_and_write: transformer.transform(file.ast), then the output file
\* is opened and written
transform_and_write ==
    /\ AtStage("emit")
    /\ log' = log \o <<[unit |-> VTop.fid, ev |-> "transform"],
                       [unit |-> VTop.fid, ev |-> "write"]>>
    /\ Advance
    /\ UNCHANGED <<fs, src, diag, flags, ALL_IMPORTED_PATHS, LOOKUP_PATHS, pc, files,
                   wstack, outcomes>>

\* "for imported in file.spc_imports: verify_and_write(imported, flags)"
verify_imported ==
    /\ AtStage("imports")
    /\ VTop.next <= Len(VUnit.spc_imports)
    /\ vstack' = Append([vstack EXCEPT ![Len(vstack)].next = VTop.next + 1],
                        [fid |-> VUnit.spc_imports[VTop.next], stage |-> "symbols",
                         next |-> 1])
    /\ UNCHANGED <<fs, src, diag, flags, ALL_IMPORTED_PATHS, LOOKUP_PATHS, pc, files,
                   wstack, log, outcomes>>

\* verify_and_write returns; when the outermost one returns, from_cli ends
verify_return ==
    /\ AtStage("imports")
    /\ VTop.next > Len(VUnit.spc_imports)
    /\ vstack' = SubSeq(vstack, 1, Len(vstack) - 1)
    /\ IF Len(vstack) = 1
       THEN pc' = "done" /\ outcomes' = Append(outcomes, "ok")
       ELSE UNCHANGED <<pc, outcomes>>
    /\ UNCHANGED <<fs, src, diag, flags, ALL_IMPORTED_PATHS, LOOKUP_PATHS, files,
                   wstack, log>>

\* FinalChecker.__init__ (_reset_state): a checker that checked nothing yet
reset_state ==
    /\ current_scope = "global"
    /\ final_variables = [s \in {"global"} |-> {}]
    /\ errors = <<>>
    /\ class_nodes = <<>>
    /\ final_methods_by_class = <<>>
    /\ result = "none"
    /\ call_stack = <<>>

\* the parser and the final checker are not running
FIdle ==
    /\ ast = <<>>
    /\ fpc = "idle"
    /\ reset_state

\* InterfaceChecker.__init__
new_interface_checker ==
    [errors |-> <<>>, interfaces |-> <<>>, classes |-> <<>>, result |-> "none"]

\* MethodOverloadResolver.__init__, and a unit nothing was resolved in
new_overload_resolver ==
    [errors |-> <<>>, file |-> [ast |-> <<>>, method_overload_table |-> <<>>],
     result |-> "none"]

\* symbol_table.py: ScopeSymbol
ScopeSymbol(name, parent) ==
    [name |-> name, parent |-> parent, variables |-> <<>>, functions |-> <<>>]

\* SymbolTable.__init__, with the builder's scope stack and what check returned
SymbolTable ==
    [scopes |-> [n \in {"global"} |-> ScopeSymbol("global", "")],
     classes |-> <<>>, interfaces |-> <<>>,
     scope_stack |-> <<"global">>, result |-> "none"]

\* TypeChecker.__init__
new_type_checker ==
    [errors |-> <<>>, scope_stack |-> <<>>, generic_bindings |-> <<>>,
     result |-> "none"]

\* the other checks have not run
\* a token of the lexer, and Parser.__init__ with what parse_statement made of
\* the first statement, the flags it consumed and the ParserError it raised
Token(type, value) == [type |-> type, value |-> value]
EOF == Token("EOF", "")
Parser(tokens) ==
    [tokens |-> tokens, current |-> 0, flags |-> <<>>, error |-> "",
     statement |-> [kind |-> "none"]]

CIdle ==
    /\ interface_checker = new_interface_checker
    /\ overload_resolver = new_overload_resolver
    /\ symbol_table = SymbolTable
    /\ type_checker = new_type_checker
    /\ parser = Parser(<<>>)

Init == PInit /\ FIdle /\ CIdle

PNext ==
    \/ from_cli
    \/ walk
    \/ walk_imported
    \/ walk_return
    \/ symbol_builder_check
    \/ overload_resolver_check
    \/ type_checker_check
    \/ interface_checker_check
    \/ final_checker_check
    \/ transform_and_write
    \/ verify_imported
    \/ verify_return

Next == PNext /\ UNCHANGED <<fvars, cvars>>

Spec == Init /\ [][Next]_vars

----------------------------------------------------------------------------
(* The parser, as far as the final checker looks at its tree: parser.py *)

\* identifiers of a unit
VarNames == {"x", "y"}
FuncNames == {"f", "g"}
MethodNames == {"m", "n"}
\* class names; the classes of a unit are named in this order (the spec's
\* data model has class names unique within a unit)
ClassOrder == <<"A", "B", "C">>
ClassNames == Range(ClassOrder)

\* ---- ast_nodes.py, the fields the final checker reads
\* FinalDeclaration(target=IdentifierExpression(name))
FinalDeclaration(name) ==
    [kind |-> "FinalDeclaration", name |-> name, bases |-> <<>>,
     is_final |-> FALSE, body |-> <<>>]
\* ExpressionStatement(AssignmentExpression(target=IdentifierExpression(name)))
Assignment(name) ==
    [kind |-> "ExpressionStatement", name |-> name, bases |-> <<>>,
     is_final |-> FALSE, body |-> <<>>]
FunctionDeclaration(name, is_final, body) ==
    [kind |-> "FunctionDeclaration", name |-> name, bases |-> <<>>,
     is_final |-> is_final, body |-> body]
ClassDeclaration(name, bases, body) ==
    [kind |-> "ClassDeclaration", name |-> name, bases |-> bases,
     is_final |-> FALSE, body |-> body]

\* parse_simple_statement: what a function or method body is made of
SimpleStatements ==
    {FinalDeclaration(v) : v \in VarNames} \cup {Assignment(v) : v \in VarNames}

\* parse_method_body: at most r statements
MethodBodies(r) == SeqsUpTo(SimpleStatements, r)

\* parse_function: functions of at most r nodes
Functions(r) ==
    IF r < 1 THEN {}
    ELSE {FunctionDeclaration(n, FALSE, b) : n \in FuncNames, b \in MethodBodies(r - 1)}

\* parse_class_member: a method, or a simple statement; "final" in front of a
\* simple statement is consumed and forgotten, so a class body never holds a
\* FinalDeclaration
ClassMembers(r) == {Assignment(v) : v \in VarNames} \cup Functions(r)

RECURSIVE Weight(_)
Weight(nodes) ==
    IF nodes = <<>> THEN 0
    ELSE 1 + Weight(Head(nodes).body) + Weight(Tail(nodes))

\* parse_class_body: member lists of at most r nodes
RECURSIVE ClassBodies(_)
ClassBodies(r) ==
    IF r < 1 THEN {<<>>}
    ELSE {<<>>} \cup UNION {{<<m>> \o rest : rest \in ClassBodies(r - Weight(<<m>>))}
                             : m \in ClassMembers(r)}

DeclaredClasses(nodes) == {i \in 1..Len(nodes) : nodes[i].kind = "ClassDeclaration"}

\* the name of the next class of the unit
NextClassName(nodes) == ClassOrder[Cardinality(DeclaredClasses(nodes)) + 1]

\* parse_class: classes without bases, of at most r nodes
PlainClasses(r, name) ==
    IF r < 1 THEN {}
    ELSE {ClassDeclaration(name, <<>>, b) : b \in ClassBodies(r - 1)}

\* parse_class: classes with bases and methods (of body "return;", at which
\* the final checker does not look)
Methods == {FunctionDeclaration(n, fin, <<>>) : n \in MethodNames, fin \in BOOLEAN}
ClassesWithBases(name, nmethods, nbases) ==
    {ClassDeclaration(name, bs, ms) :
        bs \in SeqsUpTo(ClassNames, nbases), ms \in SeqsUpTo(Methods, nmethods)}

RECURSIVE NumMethods(_)
NumMethods(nodes) ==
    IF nodes = <<>> THEN 0 ELSE Len(Head(nodes).body) + NumMethods(Tail(nodes))
RECURSIVE NumBases(_)
NumBases(nodes) ==
    IF nodes = <<>> THEN 0 ELSE Len(Head(nodes).bases) + NumBases(Tail(nodes))

----------------------------------------------------------------------------
(* The final checker: final_checker.py *)

\* dict operations
Get(d, k, dflt) == IF k \in DOMAIN d THEN d[k] ELSE dflt
Put(d, k, v) == [x \in (DOMAIN d) \cup {k} |-> IF x = k THEN v ELSE d[x]]
\* "for k, v in e.items(): d.setdefault(k, v)"
SetDefaults(d, e) ==
    [x \in (DOMAIN d) \cup (DOMAIN e) |-> IF x \in DOMAIN d THEN d[x] ELSE e[x]]

\* "hasattr(node, 'body') and isinstance(node.body, list)"
has_body(node) ==
    node.kind \in {"FunctionDeclaration", "ClassDeclaration", "WhileStatement",
                   "ForStatement", "CaseClause"}

\* CheckError(message, line, column)
ReassignError(name, pos) ==
    [msg |-> "Cannot reassign final variable", name |-> name, cls |-> "",
     base |-> "", at |-> pos]
OverrideError(cls, name, base) ==
    [msg |-> "cannot override final method", name |-> name, cls |-> cls,
     base |-> base, at |-> <<>>]

\* ---- _collect_class_metadata; md is [cn: class_nodes, fm: final_methods_by_class]
\* (of a class's final methods the checker uses the names only)
final_methods_of(node) ==
    {node.body[k].name : k \in {k \in 1..Len(node.body) :
        node.body[k].kind = "FunctionDeclaration" /\ node.body[k].is_final}}

RECURSIVE collect_class_metadata(_, _, _)
collect_class_metadata(md, nodes, i) ==
    IF i > Len(nodes) THEN md
    ELSE LET node == nodes[i]
             fin == final_methods_of(node)
             here == IF node.kind = "ClassDeclaration"
                     THEN [cn |-> Put(md.cn, node.name, node),
                           fm |-> IF fin # {} THEN Put(md.fm, node.name, fin) ELSE md.fm]
                     ELSE md
             below == IF has_body(node) THEN collect_class_metadata(here, node.body, 1)
                      ELSE here
         IN collect_class_metadata(below, nodes, i + 1)

\* ---- the final methods a class inherits
\* a look at the base itself only
collect_final_methods_direct(base_name, visited, cn, fm) ==
    [mn \in Get(fm, base_name, {}) |-> base_name]

RECURSIVE collect_final_methods_from_base(_, _, _, _)
RECURSIVE collect_from_ancestors(_, _, _, _, _, _)
collect_final_methods_from_base(base_name, visited, cn, fm) ==
    IF base_name \in visited THEN <<>>
    ELSE LET methods == [mn \in Get(fm, base_name, {}) |-> base_name]
         IN IF base_name \notin DOMAIN cn THEN methods
            ELSE collect_from_ancestors(methods, cn[base_name].bases, 1,
                                        visited \cup {base_name}, cn, fm)

\* "for ancestor in base_node.bases", each with its own copy of visited
collect_from_ancestors(methods, bases, i, visited, cn, fm) ==
    IF i > Len(bases) THEN methods
    ELSE collect_from_ancestors(
            SetDefaults(methods, collect_final_methods_from_base(bases[i], visited, cn, fm)),
            bases, i + 1, visited, cn, fm)

RECURSIVE collect_inherited_final_methods(_, _, _, _, _)
collect_inherited_final_methods(inherited, bases, i, cn, fm) ==
    IF i > Len(bases) THEN inherited
    ELSE collect_inherited_final_methods(
            SetDefaults(inherited, collect_final_methods_from_base(bases[i], {}, cn, fm)),
            bases, i + 1, cn, fm)

\* ---- the traversal; st is [scope: current_scope, fv: final_variables,
\* errors, cn, fm]
enter_scope(st, scope_name) ==
    [st EXCEPT !.scope = scope_name,
               !.fv = IF scope_name \in DOMAIN st.fv THEN @ ELSE Put(@, scope_name, {})]

register_final(st, var_name) ==
    [st EXCEPT !.fv = Put(@, st.scope, Get(@, st.scope, {}) \cup {var_name})]

\* an assignment that is never an error
check_assignment_never(st, var_name, pos) == st

check_assignment(st, var_name, pos) ==
    LET scope_vars == Get(st.fv, st.scope, {})
        global_vars == Get(st.fv, "global", {})
    IN IF var_name \in scope_vars \/ var_name \in global_vars
       THEN [st EXCEPT !.errors = Append(@, ReassignError(var_name, pos))]
       ELSE st

RECURSIVE override_errors(_, _, _, _)
override_errors(errs, class_node, inherited, k) ==
    IF k > Len(class_node.body) THEN errs
    ELSE LET member == class_node.body[k]
         IN override_errors(
               IF member.kind = "FunctionDeclaration" /\ member.name \in DOMAIN inherited
               THEN Append(errs, OverrideError(class_node.name, member.name,
                                                inherited[member.name]))
               ELSE errs,
               class_node, inherited, k + 1)

check_final_method_overrides(st, class_node) ==
    LET inherited == collect_inherited_final_methods(<<>>, class_node.bases, 1,
                                                     st.cn, st.fm)
    IN IF DOMAIN inherited = {} THEN st
       ELSE [st EXCEPT !.errors = override_errors(@, class_node, inherited, 1)]

RECURSIVE visit_node(_, _, _)
RECURSIVE visit_nodes(_, _, _, _)
\* _visit_node on the node at position pos
visit_node(st, node, pos) ==
    LET old_scope == st.scope
        entered == enter_scope(st, node.name)
        branch ==
            CASE node.kind = "FinalDeclaration" -> register_final(st, node.name)
              [] node.kind = "ExpressionStatement" -> check_assignment(st, node.name, pos)
              [] node.kind = "FunctionDeclaration" ->
                    [visit_nodes(entered, node.body, pos, 1) EXCEPT !.scope = old_scope]
              [] node.kind = "ClassDeclaration" ->
                    [visit_nodes(check_final_method_overrides(entered, node),
                                 node.body, pos, 1) EXCEPT !.scope = old_scope]
              [] OTHER -> st
    IN IF has_body(node) THEN visit_nodes(branch, node.body, pos, 1) ELSE branch

\* "for child in body: self._visit_node(child)"
visit_nodes(st, body, pos, i) ==
    IF i > Len(body) THEN st
    ELSE visit_nodes(visit_node(st, body[i], Append(pos, i)), body, pos, i + 1)

\* Parser.parse: the next top-level statement of a unit of final
\* declarations, assignments, functions and classes
parse_statement ==
    /\ fpc = "parse"
    /\ LET r == MaxNodes - Weight(ast)
           classes == IF Cardinality(DeclaredClasses(ast)) < Len(ClassOrder)
                      THEN PlainClasses(r, NextClassName(ast)) ELSE {}
       IN /\ r >= 1
          /\ \E node \in SimpleStatements \cup Functions(r) \cup classes :
                ast' = Append(ast, node)
    /\ UNCHANGED <<fpc, current_scope, final_variables, errors, class_nodes,
                   final_methods_by_class, result, call_stack>>

\* Parser.parse: the next top-level statement of a unit of classes
parse_class ==
    /\ fpc = "parse"
    /\ Cardinality(DeclaredClasses(ast)) < Len(ClassOrder)
    /\ \E node \in ClassesWithBases(NextClassName(ast), MaxMethods - NumMethods(ast),
                                   MaxBases - NumBases(ast)) :
          ast' = Append(ast, node)
    /\ UNCHANGED <<fpc, current_scope, final_variables, errors, class_nodes,
                   final_methods_by_class, result, call_stack>>

\* FinalChecker.check on the parsed unit
check ==
    /\ fpc = "parse"
    /\ LET md == collect_class_metadata([cn |-> <<>>, fm |-> <<>>], ast, 1)
           st == visit_nodes([scope |-> "global", fv |-> [s \in {"global"} |-> {}],
                              errors |-> <<>>, cn |-> md.cn, fm |-> md.fm],
                             ast, <<>>, 1)
       IN /\ current_scope' = st.scope
          /\ final_variables' = st.fv
          /\ errors' = st.errors
          /\ class_nodes' = md.cn
          /\ final_methods_by_class' = md.fm
          /\ result' = IF st.errors = <<>> THEN "true" ELSE "false"
    /\ fpc' = "done"
    /\ UNCHANGED <<ast, call_stack>>

\* no compilation is running
PIdle == PInit /\ flags = [check |-> FALSE, no_final_check |-> FALSE]

FInit ==
    /\ ast = <<>>
    /\ fpc = "parse"
    /\ reset_state

InitFinal == PIdle /\ FInit /\ CIdle

NextFinal == (parse_statement \/ check) /\ UNCHANGED <<pvars, cvars>>

SpecFinal == InitFinal /\ [][NextFinal]_vars

InitOverride == PIdle /\ FInit /\ CIdle

NextOverride == (parse_class \/ check) /\ UNCHANGED <<pvars, cvars>>

SpecOverride == InitOverride /\ [][NextOverride]_vars

----------------------------------------------------------------------------
(* Units of interfaces and classes: parser.py, ast_nodes.py *)

\* Python's None as a type annotation or a return type
NoAnnotation == "<none>"

\* the interfaces and the classes of a unit are named in these orders (the
\* spec's data model has their names unique within a unit)
InterfaceOrder == <<"I", "J">>
InterfaceNames == Range(InterfaceOrder)
ImplementerOrder == <<"A", "B">>
SignatureNames == {"m"}
ImplMethodNames == {"m"}
AnnotationNames == {"int", "Any"}
ReturnTypes == {NoAnnotation, "int"}

\* an insertion-ordered dict: a list of [key, val], a key once
RECURSIVE ODPut(_, _, _)
ODPut(d, k, v) ==
    IF d = <<>> THEN <<[key |-> k, val |-> v]>>
    ELSE IF Head(d).key = k THEN <<[key |-> k, val |-> v]>> \o Tail(d)
    ELSE <<Head(d)>> \o ODPut(Tail(d), k, v)
ODHas(d, k) == \E i \in 1..Len(d) : d[i].key = k
ODGet(d, k) == d[CHOOSE i \in 1..Len(d) : d[i].key = k].val

\* ---- ast_nodes.py
Parameter(name, type_annotation) ==
    [name |-> name, type_annotation |-> type_annotation]
MethodSignature(name, params, return_type) ==
    [kind |-> "MethodSignature", name |-> name, params |-> params,
     return_type |-> return_type]
InterfaceDeclaration(name, methods) ==
    [kind |-> "InterfaceDeclaration", name |-> name, methods |-> methods]
\* a FunctionDeclaration with the fields the checks of signatures read
MethodDeclaration(name, params, return_type) ==
    [kind |-> "FunctionDeclaration", name |-> name, params |-> params,
     return_type |-> return_type, is_final |-> FALSE, body |-> <<>>]
\* a ClassDeclaration with its implements list
ImplementingClass(name, interfaces, body) ==
    [kind |-> "ClassDeclaration", name |-> name, interfaces |-> interfaces,
     bases |-> <<>>, type_parameters |-> <<>>, body |-> body]

\* parse_parameter
SignatureParameters ==
    {Parameter("self", NoAnnotation)}
    \cup {Parameter("a", t) : t \in AnnotationNames \cup {NoAnnotation}}

\* parse_parameters: at most r parameters
ParameterLists(r) == SeqsUpTo(SignatureParameters, IF r < 0 THEN 0 ELSE r)

\* parse_method_signature: signatures of at most r nodes
Signatures(r) ==
    IF r < 1 THEN {}
    ELSE {MethodSignature(n, ps, rt) :
            n \in SignatureNames, ps \in ParameterLists(r - 1), rt \in ReturnTypes}

\* parse_class_member: methods of at most r nodes
ImplMethods(r) ==
    IF r < 1 THEN {}
    ELSE {MethodDeclaration(n, ps, rt) :
            n \in ImplMethodNames, ps \in ParameterLists(r - 1), rt \in ReturnTypes}

\* lists of signatures or of methods, of at most r nodes
RECURSIVE MemberLists(_, _)
MemberLists(r, methods) ==
    LET ms == IF methods THEN ImplMethods(r) ELSE Signatures(r)
    IN {<<>>} \cup UNION {{<<m>> \o rest : rest \in MemberLists(r - 1 - Len(m.params), methods)}
                          : m \in ms}

RECURSIVE MembersWeight(_)
MembersWeight(members) ==
    IF members = <<>> THEN 0
    ELSE 1 + Len(Head(members).params) + MembersWeight(Tail(members))

\* the nodes of a unit of interfaces and classes
RECURSIVE IfaceWeight(_)
IfaceWeight(nodes) ==
    IF nodes = <<>> THEN 0
    ELSE (IF Head(nodes).kind = "InterfaceDeclaration"
          THEN 1 + MembersWeight(Head(nodes).methods)
          ELSE 1 + Len(Head(nodes).interfaces) + MembersWeight(Head(nodes).body))
         + IfaceWeight(Tail(nodes))

DeclaredInterfaces(nodes) ==
    {i \in 1..Len(nodes) : nodes[i].kind = "InterfaceDeclaration"}

\* parse_interface: the next interface of the unit, of at most r nodes
Interfaces(r, nodes) ==
    IF r < 1 \/ Cardinality(DeclaredInterfaces(nodes)) >= Len(InterfaceOrder) THEN {}
    ELSE {InterfaceDeclaration(InterfaceOrder[Cardinality(DeclaredInterfaces(nodes)) + 1], ms) :
            ms \in MemberLists(r - 1, FALSE)}

\* parse_class: the next class of the unit, with an implements list, of at
\* most r nodes
ImplementingClasses(r, nodes) ==
    IF r < 1 \/ Cardinality(DeclaredClasses(nodes)) >= Len(ImplementerOrder) THEN {}
    ELSE UNION {{ImplementingClass(ImplementerOrder[Cardinality(DeclaredClasses(nodes)) + 1],
                                   is, b) : b \in MemberLists(r - 1 - Len(is), TRUE)}
                : is \in SeqsUpTo(InterfaceNames, r - 1)}

----------------------------------------------------------------------------
(* The interface checker: interface_checker.py *)

\* CheckError(message); what is the message about
InterfaceError(msg, cls, method, iface) ==
    [msg |-> msg, cls |-> cls, method |-> method, iface |-> iface]

\* _collect_declarations: ic is [interfaces, classes]
RECURSIVE collect_declarations(_, _, _)
collect_declarations(ic, body, i) ==
    IF i > Len(body) THEN ic
    ELSE LET stmt == body[i]
         IN collect_declarations(
               IF stmt.kind = "InterfaceDeclaration"
               THEN [ic EXCEPT !.interfaces = ODPut(@, stmt.name, stmt)]
               ELSE IF stmt.kind = "ClassDeclaration"
               THEN [ic EXCEPT !.classes = ODPut(@, stmt.name, stmt)]
               ELSE ic,
               body, i + 1)

\* _get_param_signature: "p.type_annotation or 'Any'"
get_param_signature(params) ==
    [i \in 1..Len(params) |->
        IF params[i].type_annotation = NoAnnotation THEN "Any"
        ELSE params[i].type_annotation]

\* a method's parameter types with self kept
get_method_param_signature_with_self(method) == get_param_signature(method.params)

\* _get_method_param_signature
get_method_param_signature(method) ==
    get_param_signature(SelectSeq(method.params, LAMBDA p : p.name # "self"))

\* class_methods[name]: the (signature, method) pairs of the methods of that
\* name, in the order of the class body
class_methods(class_decl, name) ==
    LET ms == SelectSeq(class_decl.body,
                        LAMBDA m : m.kind = "FunctionDeclaration" /\ m.name = name)
    IN [i \in 1..Len(ms) |-> [sig |-> get_method_param_signature(ms[i]), impl |-> ms[i]]]

\* the first method whose parameter signature is the expected one: 0 if none
RECURSIVE first_match(_, _, _)
first_match(pairs, expected, i) ==
    IF i > Len(pairs) THEN 0
    ELSE IF pairs[i].sig = expected THEN i
    ELSE first_match(pairs, expected, i + 1)

\* _check_method_implementation
check_method_implementation(errs, class_decl, interface_name, method_sig) ==
    LET pairs == class_methods(class_decl, method_sig.name)
        expected_param_sig == get_param_signature(method_sig.params)
        k == first_match(pairs, expected_param_sig, 1)
    IN IF Len(pairs) = 0
       THEN Append(errs, InterfaceError("does not implement method", class_decl.name,
                                        method_sig.name, interface_name))
       ELSE IF k = 0
       THEN Append(errs, InterfaceError("does not implement signature", class_decl.name,
                                        method_sig.name, interface_name))
       ELSE IF method_sig.return_type # pairs[k].impl.return_type
       THEN Append(errs, InterfaceError("has return type", class_decl.name,
                                        method_sig.name, interface_name))
       ELSE errs

RECURSIVE check_signatures(_, _, _, _, _)
check_signatures(errs, class_decl, interface_name, methods, i) ==
    IF i > Len(methods) THEN errs
    ELSE check_signatures(
            check_method_implementation(errs, class_decl, interface_name, methods[i]),
            class_decl, interface_name, methods, i + 1)

\* _check_implementation
check_implementation(errs, class_decl, interface_name, interfaces) ==
    IF ~ODHas(interfaces, interface_name)
    THEN Append(errs, InterfaceError("implements unknown interface", class_decl.name,
                                     "", interface_name))
    ELSE check_signatures(errs, class_decl, interface_name,
                          ODGet(interfaces, interface_name).methods, 1)

RECURSIVE check_interfaces_of(_, _, _, _)
check_interfaces_of(errs, class_decl, interfaces, j) ==
    IF j > Len(class_decl.interfaces) THEN errs
    ELSE check_interfaces_of(
            check_implementation(errs, class_decl, class_decl.interfaces[j], interfaces),
            class_decl, interfaces, j + 1)

\* "for class_name, class_decl in self.classes.items()"
RECURSIVE check_classes(_, _, _, _)
check_classes(errs, classes, interfaces, i) ==
    IF i > Len(classes) THEN errs
    ELSE check_classes(check_interfaces_of(errs, classes[i].val, interfaces, 1),
                       classes, interfaces, i + 1)

\* InterfaceChecker.check
interface_checker_checked(body) ==
    LET ic == collect_declarations([interfaces |-> <<>>, classes |-> <<>>], body, 1)
        errs == check_classes(<<>>, ic.classes, ic.interfaces, 1)
    IN [errors |-> errs, interfaces |-> ic.interfaces, classes |-> ic.classes,
        result |-> IF Len(errs) = 0 THEN "true" ELSE "false"]

\* the fields of the final checker
fcvars == <<current_scope, final_variables, errors, class_nodes,
            final_methods_by_class, result, call_stack>>

\* Parser.parse: the next top-level statement of a unit of interfaces and
\* classes
parse_interface_or_class ==
    /\ fpc = "parse"
    /\ LET r == MaxIfaceNodes - IfaceWeight(ast)
       IN \E node \in Interfaces(r, ast) \cup ImplementingClasses(r, ast) :
             ast' = Append(ast, node)
    /\ UNCHANGED <<fpc, fcvars, cvars>>

\* InterfaceChecker.check on the parsed unit
interface_check ==
    /\ fpc = "parse"
    /\ interface_checker' = interface_checker_checked(ast)
    /\ fpc' = "done"
    /\ UNCHANGED <<ast, fcvars, overload_resolver, symbol_table, type_checker, parser>>

InitIface == PIdle /\ FInit /\ CIdle

NextIface == (parse_interface_or_class \/ interface_check) /\ UNCHANGED pvars

SpecIface == InitIface /\ [][NextIface]_vars

----------------------------------------------------------------------------
(* The method overload resolver: spice/spice/compilation/checks/            *)
(* method_overload_resolver.py.  The names it builds are strings; a string  *)
(* is a sequence of characters here.                                        *)

UpperCase == <<"A", "B", "C", "D", "E", "F", "G", "H", "I", "J", "K", "L", "M",
               "N", "O", "P", "Q", "R", "S", "T", "U", "V", "W", "X", "Y", "Z">>
LowerCase == <<"a", "b", "c", "d", "e", "f", "g", "h", "i", "j", "k", "l", "m",
               "n", "o", "p", "q", "r", "s", "t", "u", "v", "w", "x", "y", "z">>
Digits == <<"0", "1", "2", "3", "4", "5", "6", "7", "8", "9">>

\* str.lower
lower(s) ==
    [i \in 1..Len(s) |->
        IF s[i] \in Range(UpperCase)
        THEN LowerCase[CHOOSE k \in 1..Len(UpperCase) : UpperCase[k] = s[i]]
        ELSE s[i]]
\* str.isalnum of one character
isalnum(ch) == ch \in Range(UpperCase) \cup Range(LowerCase) \cup Range(Digits)
\* the decimal digits of a natural number, f"{counter}"
RECURSIVE str(_)
str(n) ==
    IF n < Len(Digits) THEN <<Digits[n + 1]>>
    ELSE str(n \div Len(Digits)) \o <<Digits[(n % Len(Digits)) + 1]>>
\* sep.join(parts)
RECURSIVE join(_, _)
join(sep, parts) ==
    IF parts = <<>> THEN <<>>
    ELSE IF Len(parts) = 1 THEN parts[1]
    ELSE parts[1] \o sep \o join(sep, Tail(parts))
\* s[:n]
Prefix(s, n) == SubSeq(s, 1, IF n < Len(s) THEN n ELSE Len(s))

\* ---- the units the resolver is given
OwnerOrder == <<"C", "D">>
OverloadNames == {<<"m">>, <<"m", "_", "i", "t", "e">>}
\* "type_annotation = None" where strings are sequences of characters
NoType == <<NoAnnotation>>
OverloadTypes == {NoType, <<"I", "t", "e", "m">>, <<"I", "t", "e", "r">>}
ParamOrder == << <<"x">>, <<"y">> >>

\* a FunctionDeclaration with the fields the resolver reads
OverloadedFunction(name, params) ==
    [kind |-> "FunctionDeclaration", name |-> name, params |-> params,
     body |-> <<>>]
\* a ClassDeclaration with the fields the resolver reads
OwnerClass(name, body) ==
    [kind |-> "ClassDeclaration", name |-> name, body |-> body]

\* parse_parameters: the parameter lists of at most r parameters
OverloadParameterLists(r) ==
    UNION {{[i \in 1..n |-> Parameter(ParamOrder[i], ts[i])] :
               ts \in [1..n -> OverloadTypes]}
           : n \in {k \in 0..Len(ParamOrder) : k <= r}}

\* parse_function, parse_class_member: functions of at most r nodes
OverloadedFunctions(r) ==
    IF r < 1 THEN {}
    ELSE {OverloadedFunction(n, ps) :
            n \in OverloadNames, ps \in OverloadParameterLists(r - 1)}

\* parse_class_body: lists of methods of at most r nodes
RECURSIVE OverloadedMethodLists(_)
OverloadedMethodLists(r) ==
    {<<>>} \cup UNION {{<<m>> \o rest : rest \in OverloadedMethodLists(r - 1 - Len(m.params))}
                       : m \in OverloadedFunctions(r)}

\* parse_class: the next class of the unit, of at most r nodes
OwnerClasses(r, nodes) ==
    IF r < 1 \/ Cardinality(DeclaredClasses(nodes)) >= Len(OwnerOrder) THEN {}
    ELSE {OwnerClass(OwnerOrder[Cardinality(DeclaredClasses(nodes)) + 1], b) :
            b \in OverloadedMethodLists(r - 1)}

\* the nodes of a unit of functions and classes
RECURSIVE OverloadWeight(_)
OverloadWeight(nodes) ==
    IF nodes = <<>> THEN 0
    ELSE (IF Head(nodes).kind = "ClassDeclaration"
          THEN 1 + OverloadWeight(Head(nodes).body)
          ELSE 1 + Len(Head(nodes).params))
         + OverloadWeight(Tail(nodes))

\* ---- MethodOverloadResolver
DuplicateOverload(cls, method, signature) ==
    [msg |-> "Duplicate overload", cls |-> cls, method |-> method,
     signature |-> signature]

\* _param_type_name
param_type_name(param) ==
    IF param.type_annotation # NoType /\ param.type_annotation # <<>>
    THEN param.type_annotation
    ELSE <<"a", "n", "y">>

\* _normalize_type_name
normalize_type_name(type_name) ==
    LET cleaned == SelectSeq(type_name, isalnum)
    IN IF cleaned # <<>> THEN cleaned ELSE <<"a", "n", "y">>

\* _signature_key: the key (the list of type names is not used by the caller)
signature_key(base_name, params) ==
    LET type_names == [i \in 1..Len(params) |-> param_type_name(params[i])]
    IN IF type_names = <<>> THEN base_name \o <<"(", ")">>
       ELSE base_name \o <<"(">> \o join(<<",", " ">>, type_names) \o <<")">>

\* the characters of a type name an abbreviation starts with
PrefixLen == 3

\* _abbreviate_params: "while candidate in used and prefix_len < len(normalized)"
RECURSIVE extend_prefix(_, _, _, _)
extend_prefix(normalized, prefix_len, candidate, used) ==
    IF candidate \in used /\ prefix_len < Len(normalized)
    THEN extend_prefix(normalized, prefix_len + 1,
                       lower(Prefix(normalized, prefix_len + 1)), used)
    ELSE candidate

\* _abbreviate_params: "while unique_candidate in used"
RECURSIVE unique_candidate(_, _, _, _)
unique_candidate(temp_candidate, suffix_counter, candidate, used) ==
    IF candidate \in used
    THEN unique_candidate(temp_candidate, suffix_counter + 1,
                          temp_candidate \o str(suffix_counter + 1), used)
    ELSE candidate

\* _abbreviate_params: the first candidate of a normalized type name
first_candidate(normalized, prefix_len, used) ==
    extend_prefix(normalized, prefix_len, lower(Prefix(normalized, prefix_len)), used)

\* _abbreviate_params: "prefix_len = min(3, len(normalized))"
min_prefix_len(normalized) ==
    IF PrefixLen < Len(normalized) THEN PrefixLen ELSE Len(normalized)

\* _abbreviate_params: "param.name.lower() if param.name else f'p{index}'"
param_suffix(param, index) ==
    IF param.name # <<>> THEN lower(param.name) ELSE <<"p">> \o str(index)

\* _abbreviate_params: "unique_candidate = temp_candidate" and the loop
first_unique_candidate(temp_candidate, used) ==
    unique_candidate(temp_candidate, 1, temp_candidate, used)

\* _abbreviate_params: "if candidate in used"
abbreviation(candidate, param, index, used) ==
    IF candidate \in used
    THEN first_unique_candidate(candidate \o <<"_">> \o param_suffix(param, index), used)
    ELSE candidate

\* _abbreviate_params: the abbreviation of one parameter
abbreviate_param(param, index, normalized, used) ==
    abbreviation(first_candidate(normalized, min_prefix_len(normalized), used),
                 param, index, used)

\* _abbreviate_params, from parameter number index + 1 on
RECURSIVE abbreviate_params(_, _, _, _)
RECURSIVE abbreviate_params_after(_, _, _, _, _)
abbreviate_params(params, index, abbreviations, used) ==
    IF index >= Len(params) THEN abbreviations
    ELSE abbreviate_params_after(params, index, abbreviations, used,
            abbreviate_param(params[index + 1], index,
                             normalize_type_name(param_type_name(params[index + 1])),
                             used))
\* "used.add(candidate); abbreviations.append(candidate)"
abbreviate_params_after(params, index, abbreviations, used, candidate) ==
    abbreviate_params(params, index + 1, Append(abbreviations, candidate),
                      used \cup {candidate})

\* _build_overload_name: "while candidate in used_names"
RECURSIVE unused_name(_, _, _, _)
unused_name(stem, counter, candidate, used_names) ==
    IF candidate \in used_names
    THEN unused_name(stem, counter + 1, stem \o <<"_">> \o str(counter + 1), used_names)
    ELSE candidate

\* _build_overload_name: "suffix = ..."
overload_suffix(abbreviations) ==
    IF abbreviations = <<>> THEN <<"n", "o", "p", "a", "r", "a", "m", "s">>
    ELSE join(<<"_">>, abbreviations)

\* _build_overload_name: "candidate = f'{base_name}_{suffix}'"
overload_stem(base_name, params) ==
    base_name \o <<"_">> \o overload_suffix(abbreviate_params(params, 0, <<>>, {}))

\* _build_overload_name: "counter = 1" and the loop
first_unused_name(stem, used_names) == unused_name(stem, 1, stem, used_names)

\* _build_overload_name
build_overload_name(base_name, params, used_names) ==
    first_unused_name(overload_stem(base_name, params), used_names)

\* _process_class: the names of the methods, in the order of their first
\* declaration (the keys of methods_by_name)
RECURSIVE method_names_in_order(_, _, _)
method_names_in_order(body, i, names) ==
    IF i > Len(body) THEN names
    ELSE method_names_in_order(body, i + 1,
            IF body[i].kind = "FunctionDeclaration" /\ body[i].name \notin Range(names)
            THEN Append(names, body[i].name) ELSE names)

\* _process_class: methods_by_name[name], as positions in the class body
RECURSIVE methods_by_name(_, _, _)
methods_by_name(body, name, i) ==
    IF i > Len(body) THEN <<>>
    ELSE (IF body[i].kind = "FunctionDeclaration" /\ body[i].name = name
          THEN <<i>> ELSE <<>>) \o methods_by_name(body, name, i + 1)

\* _process_class: the overload with this key gets this name
renamed(st, class_name, at, key, new_name) ==
    [st EXCEPT !.table = ODPut(@, class_name, ODPut(ODGet(@, class_name), key, new_name)),
               !.body[at].name = new_name]

\* _process_class: "if signature_key in seen_signatures: ... continue"
duplicate(st, class_name, method_name, key) ==
    [st EXCEPT !.errors = Append(@, DuplicateOverload(class_name, method_name, key))]

\* a resolver that does not look at the signatures it has seen
RECURSIVE rename_overloads_unchecked(_, _, _, _, _, _, _)
RECURSIVE rename_overload_unchecked(_, _, _, _, _, _, _, _, _)
rename_overloads_unchecked(st, class_name, method_name, methods, k, used_names, seen_signatures) ==
    IF k > Len(methods) THEN st
    ELSE rename_overload_unchecked(st, class_name, method_name, methods, k, used_names,
            seen_signatures,
            signature_key(method_name, st.body[methods[k]].params),
            build_overload_name(method_name, st.body[methods[k]].params, used_names))
rename_overload_unchecked(st, class_name, method_name, methods, k, used_names, seen_signatures, key, new_name) ==
    rename_overloads_unchecked(renamed(st, class_name, methods[k], key, new_name),
        class_name, method_name, methods, k + 1,
        used_names \cup {new_name}, seen_signatures \cup {key})

\* _process_class: "for method in methods", from method number k on
RECURSIVE rename_overloads(_, _, _, _, _, _, _)
RECURSIVE rename_overload(_, _, _, _, _, _, _, _, _)
rename_overloads(st, class_name, method_name, methods, k, used_names, seen_signatures) ==
    IF k > Len(methods) THEN st
    ELSE rename_overload(st, class_name, method_name, methods, k, used_names,
            seen_signatures,
            signature_key(method_name, st.body[methods[k]].params),
            build_overload_name(method_name, st.body[methods[k]].params, used_names))
\* the body of that loop, for the method with this key and this new name
rename_overload(st, class_name, method_name, methods, k, used_names, seen_signatures, key, new_name) ==
    IF key \in seen_signatures
    THEN rename_overloads(duplicate(st, class_name, method_name, key),
            class_name, method_name, methods, k + 1, used_names, seen_signatures)
    ELSE rename_overloads(renamed(st, class_name, methods[k], key, new_name),
            class_name, method_name, methods, k + 1,
            used_names \cup {new_name}, seen_signatures \cup {key})

\* _process_class: "signature_map = file.method_overload_table.setdefault(...)"
with_signature_map(st, class_name) ==
    [st EXCEPT !.table = IF ODHas(@, class_name) THEN @ ELSE ODPut(@, class_name, <<>>)]

\* _process_class: "for method_name, methods in methods_by_name.items()"
RECURSIVE process_groups(_, _, _, _, _)
RECURSIVE process_group(_, _, _, _, _, _)
process_groups(st, class_name, original, names, j) ==
    IF j > Len(names) THEN st
    ELSE process_group(st, class_name, original, names, j,
                       methods_by_name(original, names[j], 1))
process_group(st, class_name, original, names, j, methods) ==
    IF Len(methods) <= 1
    THEN process_groups(st, class_name, original, names, j + 1)
    ELSE process_groups(
            rename_overloads(with_signature_map(st, class_name), class_name, names[j],
                             methods, 1, {}, {}),
            class_name, original, names, j + 1)

\* what _process_class or _process_node leaves: the node, the table, the errors
Processed(node, st) == [node |-> node, table |-> st.table, errors |-> st.errors]

\* the node with this body
with_body(node, done) == Processed([node EXCEPT !.body = done.body], done)

\* _process_class; st holds the overload table and the errors
process_class(class_node, st) ==
    with_body(class_node,
              process_groups([body |-> class_node.body, table |-> st.table,
                              errors |-> st.errors],
                             class_node.name, class_node.body,
                             method_names_in_order(class_node.body, 1, <<>>), 1))

\* _process_node, and its loop over the children of a node
RECURSIVE process_node(_, _)
RECURSIVE process_body(_)
RECURSIVE process_children(_, _, _)
RECURSIVE process_child(_, _, _)
process_node(node, st) ==
    process_body(IF node.kind = "ClassDeclaration" THEN process_class(node, st)
                 ELSE Processed(node, st))
\* "body = getattr(node, 'body', None); if isinstance(body, list): ..."
process_body(a) ==
    IF has_body(a.node)
    THEN with_body(a.node, process_children(a.node.body, 1, a))
    ELSE a
process_children(body, i, st) ==
    IF i > Len(body) THEN [body |-> body, table |-> st.table, errors |-> st.errors]
    ELSE process_child(body, i, process_node(body[i], st))
process_child(body, i, c) == process_children([body EXCEPT ![i] = c.node], i + 1, c)

\* "return not self.errors", and the unit as the resolver leaves it
resolved(done) ==
    [errors |-> done.errors,
     file |-> [ast |-> done.body, method_overload_table |-> done.table],
     result |-> IF done.errors = <<>> THEN "true" ELSE "false"]

\* MethodOverloadResolver.check on a unit with this body
overload_resolver_checked(body) ==
    resolved(process_children(body, 1, [table |-> <<>>, errors |-> <<>>]))
\* Parser.parse: the next top-level statement of a unit of functions and
\* classes
parse_function_or_class ==
    /\ fpc = "parse"
    /\ LET r == MaxOverloadNodes - OverloadWeight(ast)
       IN \E node \in OverloadedFunctions(r) \cup OwnerClasses(r, ast) :
             ast' = Append(ast, node)
    /\ UNCHANGED <<fpc, fcvars, cvars>>

\* MethodOverloadResolver.check on the parsed unit
overload_check ==
    /\ fpc = "parse"
    /\ overload_resolver' = overload_resolver_checked(ast)
    /\ fpc' = "done"
    /\ UNCHANGED <<ast, fcvars, interface_checker, symbol_table, type_checker, parser>>

InitOverload == PIdle /\ FInit /\ CIdle

NextOverload == (parse_function_or_class \/ overload_check) /\ UNCHANGED pvars

SpecOverload == InitOverload /\ [][NextOverload]_vars

----------------------------------------------------------------------------
(* The symbol table and its builder: symbol_table.py and                    *)
(* checks/symbol_table_builder.py.  A dict is a function; None is           *)
(* NoAnnotation for a type and "" for a scope name.                         *)

\* ---- ast_nodes.py: expressions and the declarations the builder reads
IdentifierExpression(name) == [kind |-> "IdentifierExpression", name |-> name]
LiteralExpression(literal_type) ==
    [kind |-> "LiteralExpression", literal_type |-> literal_type]
AttributeExpression(object, attribute) ==
    [kind |-> "AttributeExpression", object |-> object, attribute |-> attribute]
CallExpression(callee, arguments) ==
    [kind |-> "CallExpression", callee |-> callee, arguments |-> arguments]
AssignmentExpression(target, value, type_annotation) ==
    [kind |-> "AssignmentExpression", target |-> target, value |-> value,
     type_annotation |-> type_annotation]
ExpressionStatement(expression) ==
    [kind |-> "ExpressionStatement", expression |-> expression]
\* a FinalDeclaration with its target, value and annotation
TypedFinalDeclaration(target, value, type_annotation) ==
    [kind |-> "FinalDeclaration", target |-> target, value |-> value,
     type_annotation |-> type_annotation]
\* a FunctionDeclaration with its parameters, return type and body
TypedFunction(name, params, return_type, body) ==
    [kind |-> "FunctionDeclaration", name |-> name, params |-> params,
     return_type |-> return_type, body |-> body]
\* a ClassDeclaration with the names of its type parameters
GenericClass(name, type_parameters, body) ==
    [kind |-> "ClassDeclaration", name |-> name,
     type_parameters |-> type_parameters, interfaces |-> <<>>, fields |-> <<>>,
     body |-> body]
DataClassDeclaration(name, fields, body) ==
    [kind |-> "DataClassDeclaration", name |-> name, type_parameters |-> <<>>,
     fields |-> fields, body |-> body]
EnumDeclaration(name, body) ==
    [kind |-> "EnumDeclaration", name |-> name, type_parameters |-> <<>>,
     fields |-> <<>>, body |-> body]

\* ---- symbol_table.py
VariableSymbol(name, type_annotation, node) ==
    [name |-> name, type_annotation |-> type_annotation, node |-> node]
FunctionSymbol(func, scope) ==
    [name |-> func.name, params |-> func.params, return_type |-> func.return_type,
     scope |-> scope]
ClassSymbol(node, scope) ==
    [name |-> node.name, node |-> node, methods |-> <<>>, scope |-> scope,
     type_parameters |-> IF node.kind = "ClassDeclaration"
                         THEN node.type_parameters ELSE <<>>]
InterfaceSymbol(node, scope) == [name |-> node.name, node |-> node, scope |-> scope]

\* SymbolTable.ensure_scope
ensure_scope(scopes, name, parent) ==
    IF name \in DOMAIN scopes THEN scopes ELSE Put(scopes, name, ScopeSymbol(name, parent))

\* ---- SymbolTableBuilder
\* _current_scope
builder_current_scope(st) == st.scope_stack[Len(st.scope_stack)]
\* _push_scope
builder_push_scope(st, scope_name) ==
    [st EXCEPT !.scopes = ensure_scope(@, scope_name, builder_current_scope(st)),
               !.scope_stack = Append(@, scope_name)]
\* _pop_scope
builder_pop_scope(st) ==
    IF Len(st.scope_stack) > 1
    THEN [st EXCEPT !.scope_stack = SubSeq(@, 1, Len(@) - 1)]
    ELSE st
\* _add_variable
add_variable(st, name, type_annotation, node) ==
    [st EXCEPT !.scopes[builder_current_scope(st)].variables =
                   Put(@, name, VariableSymbol(name, type_annotation, node))]
\* _add_function: "scope.functions.setdefault(func.name, []).append(func_symbol)"
add_function_in(st, func, scope_name) ==
    [st EXCEPT !.scopes[scope_name].functions =
                   Put(@, func.name,
                       Append(Get(@, func.name, <<>>), FunctionSymbol(func, scope_name)))]
\* _add_function
add_function(st, func, owner_scope) ==
    add_function_in(
        [st EXCEPT !.scopes =
            ensure_scope(@, IF owner_scope # "" THEN owner_scope
                            ELSE builder_current_scope(st),
                         IF owner_scope = "" THEN builder_current_scope(st)
                         ELSE owner_scope)],
        func,
        IF owner_scope # "" THEN owner_scope ELSE builder_current_scope(st))
\* "class_symbol.methods.setdefault(member.name, []).append(method_symbol)"
add_method(st, class_name, member) ==
    [st EXCEPT !.classes[class_name].methods =
                   Put(@, member.name,
                       Append(Get(@, member.name, <<>>), FunctionSymbol(member, class_name)))]
\* _function_scope_name
function_scope_name(node, owner_scope) ==
    IF owner_scope # "" THEN owner_scope \o "." \o node.name ELSE node.name

\* _literal_to_type
literal_to_type(literal) ==
    CASE literal.literal_type = "string" -> "str"
      [] literal.literal_type = "number" -> "int"
      [] literal.literal_type = "boolean" -> "bool"
      [] OTHER -> NoAnnotation
\* _infer_call_type
infer_call_type(st, call) ==
    IF call.callee.kind = "IdentifierExpression" /\ call.callee.name \in DOMAIN st.classes
    THEN call.callee.name ELSE NoAnnotation
\* _maybe_infer_assignment: "inferred_type = ..."
inferred_type(st, value) ==
    CASE value.kind = "CallExpression" -> infer_call_type(st, value)
      [] value.kind = "LiteralExpression" -> literal_to_type(value)
      [] OTHER -> NoAnnotation
\* _maybe_infer_assignment
maybe_infer_assignment(st, node) ==
    IF node.target.kind # "IdentifierExpression" THEN st
    ELSE IF inferred_type(st, node.value) # NoAnnotation
         THEN add_variable(st, node.target.name, inferred_type(st, node.value), node)
         ELSE st
\* _visit_expression_statement
builder_visit_expression_statement(st, node) ==
    IF node.expression.kind # "AssignmentExpression" THEN st
    ELSE IF node.expression.type_annotation # NoAnnotation
         THEN (IF node.expression.target.kind = "IdentifierExpression"
               THEN add_variable(st, node.expression.target.name,
                                 node.expression.type_annotation, node.expression)
               ELSE st)
         ELSE maybe_infer_assignment(st, node.expression)
\* _register_final_declaration
register_final_declaration(st, node) ==
    IF node.target.kind = "IdentifierExpression"
    THEN add_variable(st, node.target.name, node.type_annotation, node)
    ELSE st

\* "for param in node.params: self._add_variable(...)", also for the fields
\* of a data class
RECURSIVE add_parameters(_, _, _)
add_parameters(st, params, i) ==
    IF i > Len(params) THEN st
    ELSE add_parameters(add_variable(st, params[i].name, params[i].type_annotation,
                                     params[i]),
                        params, i + 1)

RECURSIVE builder_visit_node(_, _)
RECURSIVE builder_visit_body(_, _, _)
RECURSIVE builder_visit_members(_, _, _, _)
RECURSIVE builder_visit_function(_, _, _)
\* _visit_class, _visit_data_class, _visit_enum
builder_visit_class(st, node) ==
    builder_pop_scope(
        builder_visit_members(
            add_parameters(
                builder_push_scope(
                    [st EXCEPT !.classes = Put(@, node.name,
                                               ClassSymbol(node, builder_current_scope(st)))],
                    node.name),
                node.fields, 1),
            node.name, node.body, 1))
\* "for member in node.body" of a class, a data class or an enum
builder_visit_members(st, class_scope, body, i) ==
    IF i > Len(body) THEN st
    ELSE builder_visit_members(
            IF body[i].kind = "FunctionDeclaration"
            THEN builder_visit_function(
                    add_method(add_function(st, body[i], class_scope), class_scope, body[i]),
                    body[i], class_scope)
            ELSE builder_visit_node(st, body[i]),
            class_scope, body, i + 1)
\* _visit_function
builder_visit_function(st, node, owner_scope) ==
    builder_pop_scope(
        builder_visit_body(
            add_parameters(
                builder_push_scope(
                    IF owner_scope = "" THEN add_function(st, node, "") ELSE st,
                    function_scope_name(node, owner_scope)),
                node.params, 1),
            node.body, 1))
\* "for stmt in node.body: self._visit_node(stmt)"
builder_visit_body(st, body, i) ==
    IF i > Len(body) THEN st
    ELSE builder_visit_body(builder_visit_node(st, body[i]), body, i + 1)
\* _visit_interface
builder_visit_interface(st, node) ==
    [st EXCEPT !.interfaces = Put(@, node.name,
                                  InterfaceSymbol(node, builder_current_scope(st)))]
\* _visit_node
builder_visit_node(st, node) ==
    CASE node.kind \in {"ClassDeclaration", "DataClassDeclaration", "EnumDeclaration"}
            -> builder_visit_class(st, node)
      [] node.kind = "InterfaceDeclaration" -> builder_visit_interface(st, node)
      [] node.kind = "FunctionDeclaration" -> builder_visit_function(st, node, "")
      [] node.kind = "ExpressionStatement" -> builder_visit_expression_statement(st, node)
      [] node.kind = "FinalDeclaration" -> register_final_declaration(st, node)
      [] OTHER -> IF "body" \in DOMAIN node
                  THEN builder_visit_body(st, node.body, 1) ELSE st

\* SymbolTableBuilder.check on a unit with this body
symbol_table_built(body) ==
    [builder_visit_body(SymbolTable, body, 1) EXCEPT !.result = "true"]

\* ---- the units of declarations the builder is given
SymbolClassNames == {"A", "B"}
SymbolMethodNames == {"m", "n"}
SymbolTypes == {"int", "str"}

\* parse_parameters: at most one parameter x, annotated
SymbolParameterLists(r) ==
    {<<>>} \cup (IF r < 1 THEN {} ELSE {<<Parameter("x", t)>> : t \in SymbolTypes})

\* parse_class_member: methods of at most r nodes
SymbolMethods(r) ==
    IF r < 1 THEN {}
    ELSE {TypedFunction(n, ps, NoAnnotation, <<>>) :
            n \in SymbolMethodNames, ps \in SymbolParameterLists(r - 1)}

\* parse_class_body: lists of methods of at most r nodes
RECURSIVE SymbolMethodLists(_)
SymbolMethodLists(r) ==
    {<<>>} \cup UNION {{<<m>> \o rest : rest \in SymbolMethodLists(r - 1 - Len(m.params))}
                       : m \in SymbolMethods(r)}

\* the next declaration of the unit, of at most r nodes: a class, a data
\* class, an enum or an interface
SymbolDeclarations(r) ==
    IF r < 1 THEN {}
    ELSE {GenericClass(n, <<>>, b) : n \in SymbolClassNames, b \in SymbolMethodLists(r - 1)}
         \cup {EnumDeclaration(n, b) : n \in SymbolClassNames, b \in SymbolMethodLists(r - 1)}
         \cup UNION {{DataClassDeclaration(n, fields, b) : n \in SymbolClassNames,
                                                       b \in SymbolMethodLists(r - 1 - Len(fields))}
                     : fields \in SymbolParameterLists(r - 1)}
         \cup {InterfaceDeclaration("I", <<>>)}

\* the nodes of a unit of declarations
RECURSIVE SymbolWeight(_)
SymbolWeight(nodes) ==
    IF nodes = <<>> THEN 0
    ELSE (CASE Head(nodes).kind = "InterfaceDeclaration" -> 1
            [] Head(nodes).kind = "FunctionDeclaration" -> 1 + Len(Head(nodes).params)
            [] OTHER -> 1 + Len(Head(nodes).fields) + SymbolWeight(Head(nodes).body))
         + SymbolWeight(Tail(nodes))

\* Parser.parse: the next declaration of the unit
parse_declaration ==
    /\ fpc = "parse"
    /\ \E node \in SymbolDeclarations(MaxSymbolNodes - SymbolWeight(ast)) :
          ast' = Append(ast, node)
    /\ UNCHANGED <<fpc, fcvars, cvars>>

\* SymbolTableBuilder.check on the parsed unit
symbol_table_check ==
    /\ fpc = "parse"
    /\ symbol_table' = symbol_table_built(ast)
    /\ fpc' = "built"
    /\ UNCHANGED <<ast, fcvars, interface_checker, overload_resolver, type_checker, parser>>

\* InterfaceChecker.check on a unit whose symbol table is built
interface_check_built ==
    /\ fpc = "built"
    /\ interface_checker' = interface_checker_checked(ast)
    /\ fpc' = "done"
    /\ UNCHANGED <<ast, fcvars, overload_resolver, symbol_table, type_checker, parser>>

InitSymbols == PIdle /\ FInit /\ CIdle

NextSymbols ==
    (parse_declaration \/ symbol_table_check \/ interface_check_built)
    /\ UNCHANGED pvars

SpecSymbols == InitSymbols /\ [][NextSymbols]_vars

----------------------------------------------------------------------------
(* The type checker: checks/type_checker.py.  It reads the symbol table the *)
(* builder left on the file.  An error is its message, taken apart into the *)
(* values the message is formatted from; no node of these units carries a   *)
(* position.                                                                 *)

\* "No overload of {owner_desc}{functions[0].name} matches argument types ({arg_desc})"
NoOverload(owner, name, arg_types) ==
    [kind |-> "No overload", owner |-> owner, name |-> name, arg_types |-> arg_types]
\* "Variable '{node.target.name}' must declare a type annotation when
\*  assigned from non-literal expression"
MustDeclare(name) ==
    [kind |-> "must declare a type annotation", owner |-> "", name |-> name,
     arg_types |-> <<>>]

\* _current_scope, _push_scope, _pop_scope
type_current_scope(tc) == tc.scope_stack[Len(tc.scope_stack)]
type_push_scope(tc, name) == [tc EXCEPT !.scope_stack = Append(@, name)]
type_pop_scope(tc) ==
    IF Len(tc.scope_stack) > 1
    THEN [tc EXCEPT !.scope_stack = SubSeq(@, 1, Len(@) - 1)]
    ELSE tc

\* _lookup_variable, as far as its callers read the symbol: the annotation of
\* the symbol found, None for no symbol
RECURSIVE lookup_variable(_, _, _)
lookup_variable(table, scope_name, name) ==
    IF scope_name = "" THEN NoAnnotation
    ELSE IF scope_name \notin DOMAIN table.scopes THEN NoAnnotation
    ELSE IF name \in DOMAIN table.scopes[scope_name].variables
         THEN table.scopes[scope_name].variables[name].type_annotation
         ELSE lookup_variable(table, table.scopes[scope_name].parent, name)

\* "for func in ...: if func.return_type: return func.return_type"
RECURSIVE first_return_type(_, _)
first_return_type(functions, k) ==
    IF k > Len(functions) THEN NoAnnotation
    ELSE IF functions[k].return_type # NoAnnotation THEN functions[k].return_type
    ELSE first_return_type(functions, k + 1)

\* the methods of this name of the class of this type, None for no such class
methods_of(table, obj_type, attribute) ==
    IF obj_type # NoAnnotation /\ obj_type \in DOMAIN table.classes
    THEN Get(table.classes[obj_type].methods, attribute, <<>>)
    ELSE <<>>

\* _infer_attribute_type, given the type of the object
attribute_type(table, obj_type, attribute) ==
    IF obj_type = NoAnnotation THEN NoAnnotation
    ELSE IF obj_type \notin DOMAIN table.classes THEN NoAnnotation
    ELSE IF table.classes[obj_type].name \notin DOMAIN table.scopes THEN NoAnnotation
    ELSE IF attribute \in DOMAIN table.scopes[table.classes[obj_type].name].variables
         THEN table.scopes[table.classes[obj_type].name].variables[attribute].type_annotation
         ELSE NoAnnotation

RECURSIVE infer_expression_type(_, _, _)
\* _infer_call_return
infer_call_return(table, scope_name, call) ==
    CASE call.callee.kind = "IdentifierExpression" ->
            IF call.callee.name \in DOMAIN table.classes THEN call.callee.name
            ELSE first_return_type(
                    Get(table.scopes["global"].functions, call.callee.name, <<>>), 1)
      [] call.callee.kind = "AttributeExpression" ->
            first_return_type(
                methods_of(table,
                           infer_expression_type(table, scope_name, call.callee.object),
                           call.callee.attribute), 1)
      [] OTHER -> NoAnnotation
\* _infer_attribute_type
infer_attribute_type(table, scope_name, attr) ==
    attribute_type(table, infer_expression_type(table, scope_name, attr.object),
                   attr.attribute)
\* _infer_expression_type
infer_expression_type(table, scope_name, expr) ==
    CASE expr.kind = "IdentifierExpression" -> lookup_variable(table, scope_name, expr.name)
      [] expr.kind = "LiteralExpression" -> literal_to_type(expr)
      [] expr.kind = "CallExpression" -> infer_call_return(table, scope_name, expr)
      [] expr.kind = "AttributeExpression" -> infer_attribute_type(table, scope_name, expr)
      [] OTHER -> NoAnnotation

\* "arg_types = [self._infer_expression_type(arg) for arg in node.arguments]"
infer_arguments(table, scope_name, arguments) ==
    [i \in 1..Len(arguments) |-> infer_expression_type(table, scope_name, arguments[i])]

\* _resolve_callee, given the type of the object of an attribute callee: the
\* functions, the owner and the variable, or None
NoCallee == [found |-> FALSE, functions |-> <<>>, owner |-> "", var_name |-> ""]
callee_of_type(table, callee, obj_type) ==
    IF obj_type # NoAnnotation /\ obj_type \in DOMAIN table.classes
    THEN [found |-> TRUE,
          functions |-> Get(table.classes[obj_type].methods, callee.attribute, <<>>),
          owner |-> obj_type,
          var_name |-> IF callee.object.kind = "IdentifierExpression"
                       THEN callee.object.name ELSE ""]
    ELSE NoCallee
\* _resolve_callee
resolve_callee(table, scope_name, node) ==
    CASE node.callee.kind = "IdentifierExpression" ->
            [found |-> TRUE,
             functions |-> Get(table.scopes["global"].functions, node.callee.name, <<>>),
             owner |-> "", var_name |-> ""]
      [] node.callee.kind = "AttributeExpression" ->
            callee_of_type(table, node.callee,
                           infer_expression_type(table, scope_name, node.callee.object))
      [] OTHER -> NoCallee

\* _arguments_match_generic: None
NoMatch == [matched |-> FALSE, bindings |-> <<>>]
\* _arguments_match_generic: "new_bindings = {k: v for k, v in inferred.items()
\* if k not in existing_bindings}"
new_bindings(inferred, existing_bindings) ==
    [matched |-> TRUE,
     bindings |-> [k \in DOMAIN inferred \ DOMAIN existing_bindings |-> inferred[k]]]
\* the same loop without the generic type parameters: every annotation is a
\* regular type
RECURSIVE arguments_match_regular(_, _, _, _, _, _)
arguments_match_regular(arg_types, params, type_params, existing_bindings, inferred, i) ==
    IF i > Len(params) THEN new_bindings(inferred, existing_bindings)
    ELSE IF params[i].type_annotation = NoAnnotation \/ arg_types[i] = NoAnnotation
         THEN NoMatch
    ELSE IF params[i].type_annotation \in Range(type_params)
         THEN arguments_match_regular(arg_types, params, type_params, existing_bindings,
                                      inferred, i + 1)
    ELSE IF arg_types[i] # params[i].type_annotation THEN NoMatch
    ELSE arguments_match_regular(arg_types, params, type_params, existing_bindings,
                                 inferred, i + 1)
\* _arguments_match_generic: the loop over the pairs of zip(arg_types, params)
RECURSIVE arguments_match_from(_, _, _, _, _, _)
arguments_match_from(arg_types, params, type_params, existing_bindings, inferred, i) ==
    IF i > Len(params) THEN new_bindings(inferred, existing_bindings)
    ELSE IF params[i].type_annotation = NoAnnotation \/ arg_types[i] = NoAnnotation
         THEN NoMatch
    ELSE IF params[i].type_annotation \in Range(type_params)
         THEN IF params[i].type_annotation \in DOMAIN inferred
              THEN IF inferred[params[i].type_annotation] # arg_types[i] THEN NoMatch
                   ELSE arguments_match_from(arg_types, params, type_params,
                                             existing_bindings, inferred, i + 1)
              ELSE arguments_match_from(arg_types, params, type_params, existing_bindings,
                                        Put(inferred, params[i].type_annotation, arg_types[i]),
                                        i + 1)
    ELSE IF arg_types[i] # params[i].type_annotation THEN NoMatch
    ELSE arguments_match_from(arg_types, params, type_params, existing_bindings,
                              inferred, i + 1)
\* the same match without "inferred = dict(existing_bindings)": the bindings of
\* the receiver variable are not looked at
arguments_match_unbound(arg_types, params, type_params, existing_bindings) ==
    IF Len(arg_types) # Len(params) THEN NoMatch
    ELSE arguments_match_from(arg_types, params, type_params, <<>>, <<>>, 1)
\* _arguments_match_generic
arguments_match_generic(arg_types, params, type_params, existing_bindings) ==
    IF Len(arg_types) # Len(params) THEN NoMatch
    ELSE arguments_match_from(arg_types, params, type_params, existing_bindings,
                              existing_bindings, 1)

\* "self._generic_bindings[var_name].update(match_result)"
update_bindings(tc, var_name, match_result) ==
    IF var_name # "" /\ DOMAIN match_result.bindings # {}
    THEN [tc EXCEPT !.generic_bindings =
             Put(@, var_name, SetDefaults(match_result.bindings, Get(@, var_name, <<>>)))]
    ELSE tc

\* _check_call_expression: "for func in functions", then the error
RECURSIVE select_overload(_, _, _, _, _, _)
overload_tried(tc, callee_info, arg_types, type_params, existing_bindings, k, match_result) ==
    IF match_result.matched
    THEN update_bindings(tc, callee_info.var_name, match_result)
    ELSE select_overload(tc, callee_info, arg_types, type_params, existing_bindings, k + 1)
select_overload(tc, callee_info, arg_types, type_params, existing_bindings, k) ==
    IF k > Len(callee_info.functions)
    THEN [tc EXCEPT !.errors =
             Append(@, NoOverload(callee_info.owner, callee_info.functions[1].name,
                                  arg_types))]
    ELSE overload_tried(tc, callee_info, arg_types, type_params, existing_bindings, k,
                        arguments_match_generic(arg_types, callee_info.functions[k].params,
                                                type_params, existing_bindings))

\* _check_call_expression: "type_params = ..."
type_params_of(table, owner) ==
    IF owner # "" /\ owner \in DOMAIN table.classes
    THEN table.classes[owner].type_parameters ELSE <<>>
\* _check_call_expression: "existing_bindings = ..."
existing_bindings_of(tc, table, callee_info) ==
    IF /\ callee_info.owner # "" /\ callee_info.owner \in DOMAIN table.classes
       /\ callee_info.var_name # "" /\ callee_info.var_name \in DOMAIN tc.generic_bindings
    THEN tc.generic_bindings[callee_info.var_name]
    ELSE <<>>
\* _check_call_expression, the callee resolved
check_resolved_call(tc, table, node, callee_info) ==
    IF ~callee_info.found THEN tc
    ELSE IF Len(callee_info.functions) = 0 THEN tc
    ELSE select_overload(tc, callee_info,
                         infer_arguments(table, type_current_scope(tc), node.arguments),
                         type_params_of(table, callee_info.owner),
                         existing_bindings_of(tc, table, callee_info), 1)
\* _check_call_expression
check_call_expression(tc, table, node) ==
    check_resolved_call(tc, table, node,
                        resolve_callee(table, type_current_scope(tc), node))

\* _is_constructor_call
is_constructor_call(table, call) ==
    call.callee.kind = "IdentifierExpression" /\ call.callee.name \in DOMAIN table.classes

\* the same without the exception for the call of a class
enforce_annotation_of_calls(tc, table, node) ==
    IF node.target.kind # "IdentifierExpression" THEN tc
    ELSE IF lookup_variable(table, type_current_scope(tc), node.target.name) # NoAnnotation
         THEN tc
    ELSE IF node.value.kind = "LiteralExpression" THEN tc
    ELSE [tc EXCEPT !.errors = Append(@, MustDeclare(node.target.name))]
\* _enforce_assignment_annotation
enforce_assignment_annotation(tc, table, node) ==
    IF node.target.kind # "IdentifierExpression" THEN tc
    ELSE IF lookup_variable(table, type_current_scope(tc), node.target.name) # NoAnnotation
         THEN tc
    ELSE IF node.value.kind = "LiteralExpression" THEN tc
    ELSE IF node.value.kind = "CallExpression" /\ is_constructor_call(table, node.value)
         THEN tc
    ELSE [tc EXCEPT !.errors = Append(@, MustDeclare(node.target.name))]

\* _visit_assignment
type_visit_assignment(tc, table, node) ==
    enforce_assignment_annotation(
        IF node.value.kind = "CallExpression"
        THEN check_call_expression(tc, table, node.value) ELSE tc,
        table, node)

\* _visit_expression_statement
type_visit_expression_statement(tc, table, node) ==
    CASE node.expression.kind = "CallExpression" ->
            check_call_expression(tc, table, node.expression)
      [] node.expression.kind = "AssignmentExpression" ->
            IF node.expression.type_annotation = NoAnnotation
            THEN type_visit_assignment(tc, table, node.expression)
            ELSE tc
      [] OTHER -> tc

\* _visit_function: "scope_name = ..."
type_scope_name(tc, node) ==
    IF type_current_scope(tc) = "global" THEN node.name
    ELSE type_current_scope(tc) \o "." \o node.name

RECURSIVE type_visit_node(_, _, _)
\* "for stmt in node.body: self._visit_node(stmt)"
RECURSIVE type_visit_body(_, _, _, _)
type_visit_body(tc, table, body, i) ==
    IF i > Len(body) THEN tc
    ELSE type_visit_body(type_visit_node(tc, table, body[i]), table, body, i + 1)
\* _visit_class
type_visit_class(tc, table, node) ==
    type_pop_scope(type_visit_body(type_push_scope(tc, node.name), table, node.body, 1))
\* _visit_function
type_visit_function(tc, table, node) ==
    type_pop_scope(
        type_visit_body(type_push_scope(tc, type_scope_name(tc, node)), table, node.body, 1))
\* _visit_node
type_visit_node(tc, table, node) ==
    CASE node.kind = "ClassDeclaration" -> type_visit_class(tc, table, node)
      [] node.kind = "FunctionDeclaration" -> type_visit_function(tc, table, node)
      [] node.kind = "ExpressionStatement" -> type_visit_expression_statement(tc, table, node)
      [] node.kind = "FinalDeclaration" -> tc
      [] OTHER -> IF "body" \in DOMAIN node
                  THEN type_visit_body(tc, table, node.body, 1) ELSE tc

\* TypeChecker.check: "self.errors = []; self.scope_stack = ["global"]"
type_checker_started(tc) == [tc EXCEPT !.errors = <<>>, !.scope_stack = <<"global">>]
\* TypeChecker.check: "return not self.errors"
type_checker_returned(tc) ==
    [tc EXCEPT !.result = IF tc.errors = <<>> THEN "true" ELSE "false"]
\* TypeChecker.check on a unit with this body and this symbol table; a file
\* without a symbol table has table.result = "none"
type_checker_checked(tc, table, body) ==
    IF table.result = "none" THEN [tc EXCEPT !.result = "true"]
    ELSE type_checker_returned(type_visit_body(type_checker_started(tc), table, body, 1))

\* ---- the units of calls the type checker is given: the class A, generic
\* or not, whose methods are overloads of m, followed by statements: the
\* assignments v = A() and w = <number>, calls of m on v and on A()
TypeParamOrder == <<"x", "y">>
TypeAnnotations == {NoAnnotation, "int", "T"}
TypeLiterals == {LiteralExpression("number"), LiteralExpression("string")}

\* parse_parameters: the parameters x, y of a method, of at most r nodes
TypeParameterLists(r) ==
    UNION {{[i \in 1..n |-> Parameter(TypeParamOrder[i], ts[i])] :
                ts \in [1..n -> TypeAnnotations]}
           : n \in {k \in 0..Len(TypeParamOrder) : k <= r}}

\* parse_class_body: the overloads of m, of at most r nodes
RECURSIVE TypeMethodLists(_)
TypeMethodLists(r) ==
    {<<>>} \cup
    (IF r < 1 THEN {}
     ELSE UNION {{<<TypedFunction("m", ps, NoAnnotation, <<>>)>> \o rest :
                      rest \in TypeMethodLists(r - 1 - Len(ps))}
                 : ps \in TypeParameterLists(r - 1)})

\* parse_class: the class A, its body of at most r nodes
TypeClasses(r) ==
    {GenericClass("A", tps, b) : tps \in {<<>>, <<"T">>}, b \in TypeMethodLists(r)}

\* the expression parser: the arguments of a call, of at most r nodes: one
\* literal or w, or two literals
TypeArgumentLists(r) ==
    {<<>>}
    \cup (IF r < 1 THEN {} ELSE {<<a>> : a \in TypeLiterals \cup {IdentifierExpression("w")}})
    \cup (IF r < 2 THEN {} ELSE [1..2 -> TypeLiterals])

\* the expression parser: a call of m on v or on A()
TypeCalls(r) ==
    IF r < 1 THEN {}
    ELSE {CallExpression(AttributeExpression(recv, "m"), args) :
             recv \in {IdentifierExpression("v"), CallExpression(IdentifierExpression("A"), <<>>)},
             args \in TypeArgumentLists(r - 1)}

\* parse_expression_statement: v = A(), w = <number> or a call
TypeStatements(r) ==
    IF r < 1 THEN {}
    ELSE {ExpressionStatement(AssignmentExpression(IdentifierExpression("v"),
              CallExpression(IdentifierExpression("A"), <<>>), NoAnnotation))}
         \cup {ExpressionStatement(AssignmentExpression(IdentifierExpression("w"),
                  LiteralExpression("number"), NoAnnotation))}
         \cup {ExpressionStatement(c) : c \in TypeCalls(r)}

\* the nodes of a unit of these statements: methods, parameters, statements
\* and arguments
RECURSIVE TypeWeight(_)
TypeWeight(nodes) ==
    IF nodes = <<>> THEN 0
    ELSE (CASE Head(nodes).kind = "ClassDeclaration" -> TypeWeight(Head(nodes).body)
            [] Head(nodes).kind = "FunctionDeclaration" ->
                  1 + Len(Head(nodes).params) + TypeWeight(Head(nodes).body)
            [] Head(nodes).expression.kind = "CallExpression" ->
                  1 + Len(Head(nodes).expression.arguments)
            [] OTHER -> 1)
         + TypeWeight(Tail(nodes))

\* Parser.parse: the class A of the unit
parse_generic_class ==
    /\ fpc = "parse"
    /\ ast = <<>>
    /\ \E node \in TypeClasses(MaxTypeNodes - TypeWeight(ast)) :
          ast' = Append(ast, node)
    /\ UNCHANGED <<fpc, fcvars, cvars>>

\* Parser.parse: the next statement of the module
parse_call_statement ==
    /\ fpc = "parse"
    /\ ast # <<>>
    /\ Len(ast) <= MaxTypeStatements
    /\ \E node \in TypeStatements(MaxTypeNodes - TypeWeight(ast)) :
          ast' = Append(ast, node)
    /\ UNCHANGED <<fpc, fcvars, cvars>>

\* TypeChecker.check on the unit, its symbol table built or not
type_check ==
    /\ fpc \in {"parse", "built"}
    /\ type_checker' = type_checker_checked(type_checker, symbol_table, ast)
    /\ fpc' = "done"
    /\ UNCHANGED <<ast, fcvars, interface_checker, overload_resolver, symbol_table, parser>>

InitTypes == PIdle /\ FInit /\ CIdle

NextTypes ==
    (\/ parse_generic_class
     \/ parse_call_statement
     \/ symbol_table_check
     \/ type_check)
    /\ UNCHANGED pvars

SpecTypes == InitTypes /\ [][NextTypes]_vars

\* ---- the units of assignments the type checker is given: assignments to v
\* and w, annotated or not, at most one class A (empty) and at most one
\* function f, with or without a parameter v: int, of one assignment
AssignVariables == {"v", "w"}
AssignValues ==
    {LiteralExpression("number"), LiteralExpression("none"),
     IdentifierExpression("v"), IdentifierExpression("w"),
     CallExpression(IdentifierExpression("A"), <<>>),
     CallExpression(IdentifierExpression("f"), <<>>)}

\* parse_expression_statement and parse_typed_declaration: x = <value> and
\* x: int = <number>
AssignStatements ==
    {ExpressionStatement(AssignmentExpression(IdentifierExpression(x), value, NoAnnotation)) :
        x \in AssignVariables, value \in AssignValues}
    \cup {ExpressionStatement(AssignmentExpression(IdentifierExpression(x),
                                                   LiteralExpression("number"), "int")) :
             x \in AssignVariables}

\* the nodes of a unit of assignments: declarations, parameters, statements
RECURSIVE AssignWeight(_)
AssignWeight(nodes) ==
    IF nodes = <<>> THEN 0
    ELSE (IF Head(nodes).kind = "FunctionDeclaration"
          THEN 1 + Len(Head(nodes).params) + Len(Head(nodes).body)
          ELSE 1)
         + AssignWeight(Tail(nodes))

\* Parser.parse: the class A of the unit
parse_empty_class ==
    /\ fpc = "parse"
    /\ \A i \in 1..Len(ast) : ast[i].kind # "ClassDeclaration"
    /\ AssignWeight(ast) < MaxAssignNodes
    /\ ast' = Append(ast, GenericClass("A", <<>>, <<>>))
    /\ UNCHANGED <<fpc, fcvars, cvars>>

\* Parser.parse: the next assignment of the module
parse_assignment ==
    /\ fpc = "parse"
    /\ AssignWeight(ast) < MaxAssignNodes
    /\ \E node \in AssignStatements : ast' = Append(ast, node)
    /\ UNCHANGED <<fpc, fcvars, cvars>>

\* Parser.parse: the function f of the unit
parse_assigning_function ==
    /\ fpc = "parse"
    /\ \A i \in 1..Len(ast) : ast[i].kind # "FunctionDeclaration"
    /\ \E params \in {<<>>, <<Parameter("v", "int")>>}, node \in AssignStatements :
          /\ AssignWeight(ast) + 2 + Len(params) <= MaxAssignNodes
          /\ ast' = Append(ast, TypedFunction("f", params, NoAnnotation, <<node>>))
    /\ UNCHANGED <<fpc, fcvars, cvars>>

InitAssign == PIdle /\ FInit /\ CIdle

NextAssign ==
    (\/ parse_empty_class
     \/ parse_assignment
     \/ parse_assigning_function
     \/ symbol_table_check
     \/ type_check)
    /\ UNCHANGED pvars

SpecAssign == InitAssign /\ [][NextAssign]_vars

----------------------------------------------------------------------------
(* Compiler flags at the start of a statement: parser.py.  A token is its   *)
(* type and its value; Parser.current counts from 0.  A ParserError that is *)
(* raised is the parser's field error, and nothing is parsed after it.  The *)
(* declaration that follows the flags is taken as parsed by parse_class or  *)
(* parse_function: the tokens of the unit end with its first keyword.  The  *)
(* expression parser is not part of the sources at hand: by the             *)
(* specification it parses "[" elements "]" as a list literal.              *)

\* peek, is_at_end, check, advance
peek(p) == p.tokens[p.current + 1]
is_at_end(p) == peek(p).type = "EOF"
check_token(p, types) == ~is_at_end(p) /\ peek(p).type \in types
advance(p) == IF ~is_at_end(p) THEN [p EXCEPT !.current = @ + 1] ELSE p
\* raise_parser_error
raise_parser_error(p, message) == [p EXCEPT !.error = message]
\* consume
consume(p, token_type, message) ==
    IF check_token(p, {token_type}) THEN advance(p) ELSE raise_parser_error(p, message)

\* _peek_next_non_newline_type
RECURSIVE peek_next_non_newline_type(_, _)
peek_next_non_newline_type(p, lookahead) ==
    IF lookahead >= Len(p.tokens) THEN "EOF"
    ELSE IF p.tokens[lookahead + 1].type \notin {"NEWLINE", "COMMENT"}
         THEN p.tokens[lookahead + 1].type
         ELSE peek_next_non_newline_type(p, lookahead + 1)

\* _parse_compiler_flag_values: "while True"
RECURSIVE flag_values_from(_)
flag_value_taken(p) ==
    IF check_token(p, {"COMMA"}) THEN flag_values_from(advance(p)) ELSE p
flag_values_from(p) ==
    IF check_token(p, {"IDENTIFIER", "STRING"})
    THEN flag_value_taken([advance(p) EXCEPT !.flags = Append(@, peek(p).value)])
    ELSE raise_parser_error(p, "Expected compiler flag identifier or string")
\* _parse_compiler_flag_values
parse_compiler_flag_values(p) ==
    IF check_token(p, {"RBRACKET"}) THEN p ELSE flag_values_from(p)

\* "while self.match(TokenType.NEWLINE): continue"
RECURSIVE skip_newlines(_)
skip_newlines(p) ==
    IF check_token(p, {"NEWLINE"}) THEN skip_newlines(advance(p)) ELSE p
\* "while self.check(TokenType.COMMENT): ..."
RECURSIVE skip_comments(_)
skip_comments(p) ==
    IF check_token(p, {"COMMENT"}) THEN skip_comments(skip_newlines(advance(p))) ELSE p

\* _consume_compiler_flags: "while self.check(TokenType.LBRACKET)"
RECURSIVE consume_flag_blocks(_)
flag_block_closed(p) ==
    IF p.error # "" THEN p ELSE consume_flag_blocks(skip_comments(skip_newlines(p)))
flag_values_parsed(p) ==
    IF p.error # "" THEN p
    ELSE flag_block_closed(consume(p, "RBRACKET", "Expected ']' after compiler flags"))
consume_flag_blocks(p) ==
    IF check_token(p, {"LBRACKET"})
    THEN flag_values_parsed(parse_compiler_flag_values(advance(p)))
    ELSE p

\* _consume_compiler_flags, the blocks consumed
flags_or_roll_back(p, start_index, allowed_next) ==
    IF p.error # "" THEN p
    ELSE IF p.flags = <<>> THEN p
    ELSE IF peek_next_non_newline_type(p, p.current) \notin allowed_next
         THEN [p EXCEPT !.current = start_index, !.flags = <<>>]
    ELSE p
\* _consume_compiler_flags
consume_compiler_flags(p, allowed_next) ==
    flags_or_roll_back(consume_flag_blocks([p EXCEPT !.flags = <<>>]), p.current,
                       allowed_next)

\* parse_class and parse_function, as far as the flags go:
\* "declaration.compiler_flags = list(compiler_flags or [])"
FlaggedDeclaration(kind, compiler_flags) ==
    [kind |-> kind, compiler_flags |-> compiler_flags]
\* the expression parser on a list literal: the elements up to the "]"
RECURSIVE list_elements(_, _)
list_elements(tokens, i) ==
    IF i > Len(tokens) \/ tokens[i].type \in {"RBRACKET", "EOF"} THEN <<>>
    ELSE (IF tokens[i].type = "COMMA" THEN <<>> ELSE <<tokens[i]>>)
         \o list_elements(tokens, i + 1)
ListExpression(elements) == [kind |-> "ListExpression", elements |-> elements]
\* parse_expression_statement where the expression is a list literal; on
\* another token the expression parser finds no expression
parse_expression_statement(p) ==
    IF check_token(p, {"LBRACKET"})
    THEN [p EXCEPT !.statement =
             ExpressionStatement(ListExpression(list_elements(p.tokens, p.current + 2))),
          !.current = Len(p.tokens) - 1]
    ELSE raise_parser_error(p, "Could not parse expression")

\* parse_statement: "is_final_class = ..."
is_final_class(p) ==
    check_token(p, {"FINAL"}) /\ peek_next_non_newline_type(p, p.current + 1) = "CLASS"
\* parse_statement, the flags consumed
statement_after_flags(p) ==
    IF p.error # "" THEN p
    ELSE IF check_token(p, {"INTERFACE"})
         THEN IF p.flags # <<>>
              THEN raise_parser_error(advance(p),
                       "Compiler flags are only supported for classes and functions")
              ELSE [advance(p) EXCEPT !.statement = [kind |-> "InterfaceDeclaration"]]
    ELSE IF check_token(p, {"ABSTRACT", "CLASS"}) \/ is_final_class(p)
         THEN [p EXCEPT !.statement = FlaggedDeclaration("ClassDeclaration", p.flags),
                        !.current = Len(p.tokens) - 1]
    ELSE IF check_token(p, {"DEF"})
         THEN [p EXCEPT !.statement = FlaggedDeclaration("FunctionDeclaration", p.flags),
                        !.current = Len(p.tokens) - 1]
    ELSE IF p.flags # <<>>
         THEN raise_parser_error(p,
                  "Compiler flags must precede a class or function declaration")
    ELSE IF check_token(p, {"FINAL"})
         THEN [p EXCEPT !.statement = [kind |-> "FinalDeclaration"],
                        !.current = Len(p.tokens) - 1]
    ELSE parse_expression_statement(p)
\* parse_statement
parse_statement_at(p) ==
    IF check_token(p, {"COMMENT"}) THEN advance(p)
    ELSE statement_after_flags(
            consume_compiler_flags(p, {"ABSTRACT", "FINAL", "CLASS", "DEF"}))

\* ---- the statements that start with "[": a list of at most MaxFlagValues
\* identifiers, strings and numbers, newlines and comments after its "]",
\* and what follows
FlagElements ==
    {Token("IDENTIFIER", "a"), Token("STRING", "s"), Token("NUMBER", "1")}
RECURSIVE Separated(_)
Separated(elements) ==
    IF Len(elements) <= 1 THEN elements
    ELSE <<Head(elements), Token("COMMA", ",")>> \o Separated(Tail(elements))
BracketContents == {Separated(es) : es \in SeqsUpTo(FlagElements, MaxFlagValues)}
Trivia ==
    {<<>>, <<Token("NEWLINE", "")>>, <<Token("COMMENT", "#"), Token("NEWLINE", "")>>}
Followers ==
    {<<Token("CLASS", "class")>>, <<Token("DEF", "def")>>,
     <<Token("ABSTRACT", "abstract")>>,
     <<Token("FINAL", "final"), Token("CLASS", "class")>>,
     <<Token("FINAL", "final"), Token("IDENTIFIER", "a")>>,
     <<Token("INTERFACE", "interface")>>,
     <<Token("SEMICOLON", ";")>>,
     <<>>}
BracketStatements ==
    {<<Token("LBRACKET", "[")>> \o contents \o <<Token("RBRACKET", "]")>>
         \o trivia \o follower \o <<EOF>> :
        contents \in BracketContents, trivia \in Trivia, follower \in Followers}

\* Lexer.tokenize: the tokens of a unit that starts with "["
tokenize_brackets ==
    /\ parser = Parser(<<>>)
    /\ \E tokens \in BracketStatements : parser' = Parser(tokens)
    /\ UNCHANGED <<fvars, interface_checker, overload_resolver, symbol_table, type_checker>>

\* Parser.parse: parse_statement on the first statement of the unit
parse_first_statement ==
    /\ parser.tokens # <<>>
    /\ parser.current = 0
    /\ parser.error = ""
    /\ parser' = parse_statement_at(parser)
    /\ UNCHANGED <<fvars, interface_checker, overload_resolver, symbol_table, type_checker>>

InitFlags == PIdle /\ FInit /\ CIdle

NextFlags == (tokenize_brackets \/ parse_first_statement) /\ UNCHANGED pvars

SpecFlags == InitFlags /\ [][NextFlags]_vars

----------------------------------------------------------------------------
(* Functions with nested statements: parser.py, ast_nodes.py *)

\* the statements of one nested block
MaxNested == 2

\* IfStatement(condition, then_body, else_body)
IfStatement(then_body, else_body) ==
    [kind |-> "IfStatement", then_body |-> then_body, else_body |-> else_body]
\* WhileStatement(condition, body)
WhileStatement(body) == [kind |-> "WhileStatement", body |-> body]
\* ForStatement(target, body)
ForStatement(body) == [kind |-> "ForStatement", body |-> body]
\* CaseClause(value, body)
CaseClause(body) == [kind |-> "CaseClause", body |-> body]
\* SwitchStatement(expression, cases, default)
SwitchStatement(cases, default) ==
    [kind |-> "SwitchStatement", cases |-> cases, default |-> default]

\* parse_block: assignments, at most r of them
Blocks(r) == SeqsUpTo({Assignment(v) : v \in VarNames}, r)

\* pairs of blocks of at most r statements together
BlockPairs(r) ==
    {p \in Blocks(r) \X Blocks(r) : Len(p[1]) + Len(p[2]) <= r}

\* parse_simple_statement: an assignment, or a statement that holds blocks
NestingStatements(r) ==
    {Assignment(v) : v \in VarNames}
    \cup {IfStatement(p[1], p[2]) : p \in BlockPairs(r)}
    \cup {WhileStatement(b) : b \in Blocks(r)}
    \cup {ForStatement(b) : b \in Blocks(r)}
    \cup {SwitchStatement(<<CaseClause(p[1])>>, p[2]) : p \in BlockPairs(r)}
    \cup {SwitchStatement(<<>>, b) : b \in Blocks(r)}

\* Parser.parse: a unit of one function, which declares a final variable and
\* goes on with one statement
parse_nesting_function ==
    /\ fpc = "parse"
    /\ ast = <<>>
    /\ \E v \in VarNames, stmt \in NestingStatements(MaxNested) :
          ast' = <<FunctionDeclaration("f", FALSE, <<FinalDeclaration(v), stmt>>)>>
    /\ UNCHANGED <<fpc, current_scope, final_variables, errors, class_nodes,
                   final_methods_by_class, result, call_stack>>

InitNested == PIdle /\ FInit /\ CIdle

NextNested == (parse_nesting_function \/ check) /\ UNCHANGED <<pvars, cvars>>

SpecNested == InitNested /\ [][NextNested]_vars

----------------------------------------------------------------------------
(* The overload resolver followed by the final checker: pipeline.py,        *)
(* verify_and_write.  The resolver renames the methods in the tree the      *)
(* parser built; ast stays the unit as it was parsed, and the tree as the   *)
(* resolver left it is overload_resolver.file.ast.  The names are sequences *)
(* of characters, as the resolver builds them.                              *)

\* the methods of one class
MaxOverloads == 2

\* "global"
GlobalScope == <<"g", "l", "o", "b", "a", "l">>

FinalClassOrder == << <<"A">>, <<"B">> >>

\* a FunctionDeclaration with the fields the resolver and the final checker
\* read
FinalOverload(name, params, is_final) ==
    [kind |-> "FunctionDeclaration", name |-> name, params |-> params,
     bases |-> <<>>, is_final |-> is_final, body |-> <<>>]

\* parse_class_member: the methods named m, without a parameter or with
\* the parameter x: int, final or not
FinalOverloads ==
    {FinalOverload(<<"m">>, ps, fin) :
        ps \in {<<>>, <<Parameter(<<"x">>, <<"i", "n", "t">>)>>}, fin \in BOOLEAN}

\* parse_class: the next class of the unit; a class extends classes declared
\* before it
FinalOverloadClasses(nodes) ==
    IF Len(nodes) >= Len(FinalClassOrder) THEN {}
    ELSE {ClassDeclaration(FinalClassOrder[Len(nodes) + 1], bs, ms) :
            bs \in SeqsUpTo({nodes[i].name : i \in 1..Len(nodes)}, 1),
            ms \in SeqsUpTo(FinalOverloads, MaxOverloads)}

\* Parser.parse: the next class of a unit of classes with overloads
parse_overloading_class ==
    /\ fpc = "parse"
    /\ \E node \in FinalOverloadClasses(ast) : ast' = Append(ast, node)
    /\ UNCHANGED <<fpc, fcvars, cvars>>

\* verify_and_write: MethodOverloadResolver.check on the parsed unit
resolve_overloads ==
    /\ fpc = "parse"
    /\ overload_resolver' = overload_resolver_checked(ast)
    /\ fpc' = "resolved"
    /\ UNCHANGED <<ast, fcvars, interface_checker, symbol_table, type_checker, parser>>

\* FinalChecker.check on a unit with this body
final_checker_checked(body, global) ==
    LET md == collect_class_metadata([cn |-> <<>>, fm |-> <<>>], body, 1)
    IN visit_nodes([scope |-> global, fv |-> [s \in {global} |-> {}],
                    errors |-> <<>>, cn |-> md.cn, fm |-> md.fm], body, <<>>, 1)

\* verify_and_write: FinalChecker.check on the unit the resolver accepted
\* (the type checker and the interface checker, which run in between, find
\* nothing in a unit of classes whose methods have empty bodies)
check_resolved ==
    /\ fpc = "resolved"
    /\ ~check_is_fatal(overload_resolver.result = "true")
    /\ LET st == final_checker_checked(overload_resolver.file.ast, GlobalScope)
       IN /\ current_scope' = st.scope
          /\ final_variables' = st.fv
          /\ errors' = st.errors
          /\ class_nodes' = st.cn
          /\ final_methods_by_class' = st.fm
          /\ result' = IF st.errors = <<>> THEN "true" ELSE "false"
    /\ fpc' = "done"
    /\ UNCHANGED <<ast, call_stack, cvars>>

InitResolved == PIdle /\ FInit /\ CIdle

NextResolved ==
    (parse_overloading_class \/ resolve_overloads \/ check_resolved) /\ UNCHANGED pvars

SpecResolved == InitResolved /\ [][NextResolved]_vars

----------------------------------------------------------------------------
(* The overload resolver followed by the interface checker: pipeline.py,    *)
(* verify_and_write.  The resolver builds names character by character and  *)
(* the interface checker compares whole strings; Spelling gives the         *)
(* characters of the strings of these units.                                *)

\* the methods of the class of a unit given to the resolver and to a later
\* check
MaxImplMethods == 2

Spelling ==
    [s \in {"m", "self", "a", "int", "m_noparams", "m_any", "m_int", "m_any_int"} |->
        CASE s = "m" -> <<"m">>
          [] s = "self" -> <<"s", "e", "l", "f">>
          [] s = "a" -> <<"a">>
          [] s = "int" -> <<"i", "n", "t">>
          [] s = "m_noparams" -> <<"m", "_", "n", "o", "p", "a", "r", "a", "m", "s">>
          [] s = "m_any" -> <<"m", "_", "a", "n", "y">>
          [] s = "m_int" -> <<"m", "_", "i", "n", "t">>
          [] s = "m_any_int" -> <<"m", "_", "a", "n", "y", "_", "i", "n", "t">>]
\* the characters of a string, and the string of these characters
chars(s) == Spelling[s]
text(cs) == CHOOSE s \in DOMAIN Spelling : Spelling[s] = cs

\* parse_parameters: an optional self, then an optional a: int
ReceiverParameterLists ==
    {r \o p : r \in {<<>>, <<Parameter("self", NoAnnotation)>>},
              p \in {<<>>, <<Parameter("a", "int")>>}}

\* parse_interface: the interface I with one signature of m
OneSignatureInterfaces ==
    {InterfaceDeclaration("I", <<MethodSignature("m", ps, rt)>>) :
        ps \in ReceiverParameterLists, rt \in ReturnTypes}

\* parse_class: the class A, which implements I and declares methods named m
OverloadingImplementers ==
    {ImplementingClass("A", <<"I">>, ms) :
        ms \in SeqsUpTo({MethodDeclaration("m", ps, rt) :
                            ps \in ReceiverParameterLists, rt \in ReturnTypes},
                        MaxImplMethods)}

\* Parser.parse: the interface, then the class
parse_interface_then_class ==
    /\ fpc = "parse"
    /\ Len(ast) < 2
    /\ \E node \in IF ast = <<>> THEN OneSignatureInterfaces ELSE OverloadingImplementers :
          ast' = Append(ast, node)
    /\ UNCHANGED <<fpc, fcvars, cvars>>

\* a parameter, a method and a node as the resolver reads them
spelled_parameter(p) ==
    Parameter(chars(p.name),
              IF p.type_annotation = NoAnnotation THEN NoType ELSE chars(p.type_annotation))
spelled_method(m) ==
    [m EXCEPT !.name = chars(m.name),
              !.params = [i \in 1..Len(m.params) |-> spelled_parameter(m.params[i])]]
spelled(node) ==
    IF node.kind = "ClassDeclaration"
    THEN [node EXCEPT !.body = [k \in 1..Len(node.body) |-> spelled_method(node.body[k])]]
    ELSE node

\* the parsed unit with the names the resolver gave to the methods
with_resolved_names(body, resolved_body) ==
    [i \in 1..Len(body) |->
        IF body[i].kind = "ClassDeclaration"
        THEN [body[i] EXCEPT !.body =
                [k \in 1..Len(body[i].body) |->
                    [body[i].body[k] EXCEPT !.name = text(resolved_body[i].body[k].name)]]]
        ELSE body[i]]

\* verify_and_write: MethodOverloadResolver.check on the parsed unit
resolve_implementers ==
    /\ fpc = "parse"
    /\ Len(ast) = 2
    /\ overload_resolver' =
          overload_resolver_checked([i \in 1..Len(ast) |-> spelled(ast[i])])
    /\ fpc' = "resolved"
    /\ UNCHANGED <<ast, fcvars, interface_checker, symbol_table, type_checker, parser>>

\* verify_and_write: InterfaceChecker.check on the unit the resolver accepted
\* (the type checker, which runs in between, finds nothing in a unit whose
\* methods have empty bodies)
interface_check_resolved ==
    /\ fpc = "resolved"
    /\ ~check_is_fatal(overload_resolver.result = "true")
    /\ interface_checker' =
          interface_checker_checked(with_resolved_names(ast, overload_resolver.file.ast))
    /\ fpc' = "done"
    /\ UNCHANGED <<ast, fcvars, overload_resolver, symbol_table, type_checker, parser>>

InitImplemented == PIdle /\ FInit /\ CIdle

NextImplemented ==
    (parse_interface_then_class \/ resolve_implementers \/ interface_check_resolved)
    /\ UNCHANGED pvars

SpecImplemented == InitImplemented /\ [][NextImplemented]_vars

----------------------------------------------------------------------------
(* FinalChecker.check step by step on a unit of classes: final_checker.py.  *)
(* call_stack holds the activations of check, of                            *)
(* _collect_inherited_final_methods and of _collect_final_methods_from_base, *)
(* the innermost last.  An activation is the function, the class or base    *)
(* name it was called with, its visited set, the index of the base it looks *)
(* at next (0: its body has not started) and its dict of methods.           *)

\* the interpreter's recursion limit: a call deeper than this raises
\* RecursionError
MaxDepth == 8

\* the bases the classes of a unit list, all together
MaxParents == 2

\* parse_class: the next class of the unit, which extends any classes and
\* declares no method, the final method m or the method m
InheritingClasses(nodes) ==
    IF Len(nodes) >= Len(ClassOrder) THEN {}
    ELSE {ClassDeclaration(ClassOrder[Len(nodes) + 1], bs, ms) :
            bs \in SeqsUpTo(ClassNames, MaxParents - NumBases(nodes)),
            ms \in {<<>>} \cup {<<FunctionDeclaration("m", fin, <<>>)>> : fin \in BOOLEAN}}

\* Parser.parse: the next class of a unit of classes that inherit
parse_inheriting_class ==
    /\ fpc = "parse"
    /\ \E node \in InheritingClasses(ast) : ast' = Append(ast, node)
    /\ UNCHANGED <<fpc, fcvars>>

Activation(fn, name, visited, i, methods) ==
    [fn |-> fn, name |-> name, visited |-> visited, i |-> i, methods |-> methods]

\* the innermost activation
Running == call_stack[Len(call_stack)]
Callers == SubSeq(call_stack, 1, Len(call_stack) - 1)

\* the innermost activation goes on from index i with these methods
proceeded(i, methods) ==
    Append(Callers, [Running EXCEPT !.i = i, !.methods = methods])

\* the innermost activation calls, and goes on with its next index
called(callee) ==
    Append(Append(Callers, [Running EXCEPT !.i = @ + 1]), callee)

\* the innermost activation returns a dict to its caller:
\* "for method_name, origin in ....items(): ....setdefault(method_name, origin)"
returned(methods) ==
    LET n == Len(Callers)
    IN [Callers EXCEPT ![n].methods = SetDefaults(@, methods)]

\* a base that never counts as visited
already_visited_never(base_name, visited) == FALSE

\* "if base_name in visited"
already_visited(base_name, visited) == base_name \in visited

\* FinalChecker.check: _reset_state, _collect_class_metadata, and the loop
\* over the nodes of the unit is entered
check_called ==
    /\ fpc = "parse"
    /\ LET md == collect_class_metadata([cn |-> <<>>, fm |-> <<>>], ast, 1)
       IN /\ class_nodes' = md.cn
          /\ final_methods_by_class' = md.fm
    /\ current_scope' = "global"
    /\ final_variables' = [s \in {"global"} |-> {}]
    /\ errors' = <<>>
    /\ call_stack' = <<Activation("check", "", {}, 1, <<>>)>>
    /\ fpc' = "check"
    /\ UNCHANGED <<ast, result>>

\* check: "for node in file.ast.body: self._visit_node(node)", which enters
\* the scopes of the class and of its methods and calls
\* _check_final_method_overrides, and with it
\* _collect_inherited_final_methods; after the last node, "return not
\* self.errors"
visit_class ==
    /\ fpc = "check"
    /\ Running.fn = "check"
    /\ IF Running.i > Len(ast)
       THEN /\ call_stack' = <<>>
            /\ result' = IF errors = <<>> THEN "true" ELSE "false"
            /\ fpc' = "done"
            /\ UNCHANGED final_variables
       ELSE /\ Len(call_stack) < MaxDepth
            /\ call_stack' = called(Activation("_collect_inherited_final_methods",
                                               ast[Running.i].name, {}, 1, <<>>))
            /\ final_variables' =
                  visit_node([scope |-> current_scope, fv |-> final_variables,
                              errors |-> <<>>, cn |-> <<>>, fm |-> <<>>],
                             ast[Running.i], <<Running.i>>).fv
            /\ UNCHANGED <<result, fpc>>
    /\ UNCHANGED <<ast, current_scope, errors, class_nodes, final_methods_by_class>>

\* _collect_inherited_final_methods: "for base_name in class_node.bases";
\* when it returns, _check_final_method_overrides reports the overrides
collect_inherited ==
    /\ fpc = "check"
    /\ Running.fn = "_collect_inherited_final_methods"
    /\ LET class_node == class_nodes[Running.name]
       IN IF Running.i > Len(class_node.bases)
          THEN /\ call_stack' = Callers
               /\ errors' = IF DOMAIN Running.methods = {} THEN errors
                            ELSE override_errors(errors, class_node, Running.methods, 1)
          ELSE /\ Len(call_stack) < MaxDepth
               /\ call_stack' = called(Activation("_collect_final_methods_from_base",
                                                  class_node.bases[Running.i], {}, 0, <<>>))
               /\ UNCHANGED errors
    /\ UNCHANGED <<ast, fpc, current_scope, final_variables, class_nodes,
                   final_methods_by_class, result>>

\* _collect_final_methods_from_base: up to the loop, or one round of the
\* loop "for ancestor in base_node.bases", or its return
collect_from_base ==
    /\ fpc = "check"
    /\ Running.fn = "_collect_final_methods_from_base"
    /\ LET base_name == Running.name
           visited == Running.visited \cup {base_name}
           methods == [mn \in Get(final_methods_by_class, base_name, {}) |-> base_name]
       IN IF Running.i = 0
          THEN IF already_visited(base_name, Running.visited)
               THEN call_stack' = returned(<<>>)
               ELSE IF base_name \notin DOMAIN class_nodes
               THEN call_stack' = returned(methods)
               ELSE call_stack' = Append(Callers, [Running EXCEPT !.visited = visited,
                                                                  !.i = 1,
                                                                  !.methods = methods])
          ELSE IF Running.i > Len(class_nodes[base_name].bases)
               THEN call_stack' = returned(Running.methods)
               ELSE /\ Len(call_stack) < MaxDepth
                    /\ call_stack' =
                          called(Activation("_collect_final_methods_from_base",
                                            class_nodes[base_name].bases[Running.i],
                                            Running.visited, 0, <<>>))
    /\ UNCHANGED <<ast, fpc, current_scope, final_variables, errors, class_nodes,
                   final_methods_by_class, result>>

\* one step of the running check
check_step == visit_class \/ collect_inherited \/ collect_from_base

InitInherit == PIdle /\ FInit /\ CIdle

NextInherit ==
    (parse_inheriting_class \/ check_called \/ check_step) /\ UNCHANGED <<pvars, cvars>>

\* a called check runs, and a unit that was parsed is checked
SpecInherit ==
    /\ InitInherit
    /\ [][NextInherit]_vars
    /\ WF_vars(check_called /\ UNCHANGED <<pvars, cvars>>)
    /\ WF_vars(check_step /\ UNCHANGED <<pvars, cvars>>)

----------------------------------------------------------------------------
(* The symbol-table builder, the overload resolver and the type checker in  *)
(* the order of verify_and_write: pipeline.py.  The builder reads the unit  *)
(* as it was parsed, the type checker the unit with the names the resolver  *)
(* gave to the methods.                                                     *)

\* parse_class: the class A with methods named m; parse_function: the
\* function f
ScopedDeclarations(nodes) ==
    IF nodes = <<>>
    THEN {GenericClass("A", <<>>, ms) :
            ms \in SeqsUpTo({TypedFunction("m", ps, NoAnnotation, <<>>) :
                                ps \in ReceiverParameterLists},
                            MaxImplMethods)}
    ELSE {TypedFunction("f", ps, NoAnnotation, <<>>) : ps \in ReceiverParameterLists}

\* Parser.parse: the class, then a function
parse_scoped_declaration ==
    /\ fpc = "parse"
    /\ Len(ast) < 2
    /\ \E node \in ScopedDeclarations(ast) : ast' = Append(ast, node)
    /\ UNCHANGED <<fpc, fcvars, cvars>>

\* verify_and_write: MethodOverloadResolver.check on the unit whose symbol
\* table is built
resolve_built ==
    /\ fpc = "built"
    /\ overload_resolver' =
          overload_resolver_checked([i \in 1..Len(ast) |-> spelled(ast[i])])
    /\ fpc' = "resolved"
    /\ UNCHANGED <<ast, fcvars, interface_checker, symbol_table, type_checker, parser>>

\* verify_and_write: TypeChecker.check on the unit the resolver accepted
type_check_resolved ==
    /\ fpc = "resolved"
    /\ ~check_is_fatal(overload_resolver.result = "true")
    /\ type_checker' =
          type_checker_checked(type_checker, symbol_table,
                               with_resolved_names(ast, overload_resolver.file.ast))
    /\ fpc' = "done"
    /\ UNCHANGED <<ast, fcvars, interface_checker, overload_resolver, symbol_table, parser>>

InitScopes == PIdle /\ FInit /\ CIdle

NextScopes ==
    (\/ parse_scoped_declaration
     \/ symbol_table_check
     \/ resolve_built
     \/ type_check_resolved)
    /\ UNCHANGED pvars

SpecScopes == InitScopes /\ [][NextScopes]_vars

----------------------------------------------------------------------------
(* Units of functions that call a method on a local variable: the class A,  *)
(* generic or not, with its method m, then functions whose bodies are       *)
(* "v = A()" and "v.m(<literal>)", then the same two statements at top      *)
(* level; SymbolTableBuilder.check, TypeChecker.check.                      *)

\* the functions of a unit of callers
MaxCallers == 2

CallerOrder == <<"f", "g", "h">>

\* parse_class: the class A, with the type parameter T or without, and its
\* method m(x) or m(self, x), x of type int or T
ReceiverClasses ==
    {GenericClass("A", tps, <<TypedFunction("m", r \o <<Parameter("x", t)>>,
                                            NoAnnotation, <<>>)>>) :
        tps \in {<<>>, <<"T">>},
        r \in {<<>>, <<Parameter("self", NoAnnotation)>>},
        t \in {"int", "T"}}

\* parse_expression_statement: v = A()
ConstructedLocal ==
    ExpressionStatement(AssignmentExpression(IdentifierExpression("v"),
        CallExpression(IdentifierExpression("A"), <<>>), NoAnnotation))

\* parse_expression_statement: v.m(<literal>)
CallsOnLocal ==
    {ExpressionStatement(CallExpression(
        AttributeExpression(IdentifierExpression("v"), "m"), <<lit>>)) :
        lit \in TypeLiterals}

CallingFunctions(nodes) == {i \in 1..Len(nodes) : nodes[i].kind = "FunctionDeclaration"}

\* the next node of the unit: the class; a function, while no statement
\* follows the functions; v = A(); a call on v
CallerNodes(nodes) ==
    IF nodes = <<>> THEN ReceiverClasses
    ELSE IF nodes[Len(nodes)] = ConstructedLocal THEN CallsOnLocal
    ELSE IF nodes[Len(nodes)].kind = "ExpressionStatement" THEN {}
    ELSE {ConstructedLocal}
         \cup (IF Cardinality(CallingFunctions(nodes)) >= MaxCallers
                  \/ Cardinality(CallingFunctions(nodes)) >= Len(CallerOrder)
               THEN {}
               ELSE {TypedFunction(CallerOrder[Cardinality(CallingFunctions(nodes)) + 1], <<>>,
                                   NoAnnotation, <<ConstructedLocal, call>>) :
                        call \in CallsOnLocal})

\* Parser.parse: the next top-level statement of a unit of callers
parse_caller ==
    /\ fpc = "parse"
    /\ \E node \in CallerNodes(ast) : ast' = Append(ast, node)
    /\ UNCHANGED <<fpc, fcvars, cvars>>

InitCalls == PIdle /\ FInit /\ CIdle

NextCalls == (parse_caller \/ symbol_table_check \/ type_check) /\ UNCHANGED pvars

SpecCalls == InitCalls /\ [][NextCalls]_vars

----------------------------------------------------------------------------
(* What the claims about the pipeline speak of *)

Units == 1..Len(files)
ModOf(u) == files[u].path[2]
Events == 1..Len(log)
Happened(u, ev) == \E i \in Events : log[i] = [unit |-> u, ev |-> ev]
EventsOf(u) ==
    LET es == SelectSeq(log, LAMBDA e : e.unit = u)
    IN [i \in 1..Len(es) |-> es[i].ev]
PassOrder == <<"symbols", "overload", "types", "iface", "final", "transform", "write">>
IsPrefix(s, t) == Len(s) <= Len(t) /\ \A i \in 1..Len(s) : s[i] = t[i]
Failed == pc = "done" /\ outcomes # <<>> /\ outcomes[Len(outcomes)] = "compile_time_error"

\* the units that import unit u, directly or through other units
RECURSIVE Importers(_)
Importers(u) ==
    LET direct == {a \in Units : u \in Range(files[a].spc_imports)}
    IN direct \cup UNION {Importers(a) : a \in direct}

\* the import graph, as far as the files were read and the directories looked
\* at: an import statement leads to the file resolve_imports resolves it to
\* (the recorded paths left aside)
ImportsOf(p) ==
    IF fs[p] = "spc" /\ src[p[2]].state = "ok"
    THEN LET r == resolve_imports(src[p[2]].imports, WalkLookupPaths, <<>>, fs)
         IN Range(r.spc) \cup Range(r.py)
    ELSE {}
RECURSIVE ReachableFrom(_)
ReachableFrom(ps) ==
    LET more == ps \cup UNION {ImportsOf(p) : p \in ps}
    IN IF more = ps THEN ps ELSE ReachableFrom(more)
CycleReachable ==
    \E p \in ReachableFrom({EntryPath}) : p \in ReachableFrom(ImportsOf(p))

----------------------------------------------------------------------------
(* Claims C1..C7: the pipeline *)

\* C1: for each unit the passes run in the order symbol table, overload
\* resolution, type check, interface check, final check, transform, write;
\* when the overload resolver, the type checker or the interface checker
\* reports errors, SpiceCompileTimeError is raised at once: that pass is the
\* last thing that ran, so no later pass, transform or write happens.
C1_PassOrderAndGate ==
    /\ \A u \in Units : IsPrefix(EventsOf(u), PassOrder)
    /\ \A i \in Events :
          (/\ log[i].ev \in {"overload", "types", "iface"}
           /\ diag[ModOf(log[i].unit)][log[i].ev] = "err")
          => (i = Len(log) /\ Failed /\ ~Happened(log[i].unit, "transform"))

C1_Witness ==
    /\ Failed
    /\ log # <<>>
    /\ log[Len(log)].ev = "types"
    /\ Len(files) >= 2

\* C2 (as claimed): a unit is written only after every .spc unit it imports
\* has been written.
C2_ImportsEmittedFirst ==
    \A i \in Events :
        log[i].ev = "write"
        => \A c \in Range(files[log[i].unit].spc_imports) :
              \E j \in 1..(i - 1) : log[j] = [unit |-> c, ev |-> "write"]

\* C3 (as claimed): when the verification of a unit fails, no unit that
\* imports it, directly or through other units, was transformed or written.
C3_DependentsSkipped ==
    (Failed /\ log # <<>>)
    => \A a \in Importers(log[Len(log)].unit) :
          ~Happened(a, "transform") /\ ~Happened(a, "write")

\* C4 (as claimed): with the option check set, no unit is transformed and no
\* output file is written.
C4_CheckEmitsNothing ==
    flags.check => \A i \in Events : log[i].ev \notin {"transform", "write"}

C6_CycleRaisesCircular ==
    (CycleReachable /\ Len(outcomes) <= 1)
    => /\ pc # "verify"
       /\ (pc = "done" /\ Len(outcomes) = 1) => outcomes[1] = "circular_import"

\* C6 (amended): walk terminates: its recursion is never deeper than the
\* imported paths recorded plus the entry, and no path is recorded twice; and
\* whenever the import graph reachable from the entry file contains a cycle,
\* walk returns no tree: it raises, the 'Circular Import' ImportError unless
\* the 'Unresolved imports' ImportError or a lexer or parser error comes
\* first.  A tree that walk returns has no file twice.
C6_WalkTerminates ==
    /\ Len(wstack) <= Len(ALL_IMPORTED_PATHS) + 1
    /\ \A i, j \in 1..Len(ALL_IMPORTED_PATHS) :
          ALL_IMPORTED_PATHS[i] = ALL_IMPORTED_PATHS[j] => i = j
    /\ pc = "verify"
       => /\ ~CycleReachable
          /\ \A u, v \in Units : files[u].path = files[v].path => u = v
    /\ (pc = "done" /\ Len(outcomes) = 1 /\ CycleReachable)
       => outcomes[1] \in {"circular_import", "unresolved_imports", "syntax_error"}

C6_Witness ==
    /\ pc = "done"
    /\ Len(outcomes) = 1
    /\ outcomes[1] = "circular_import"
    /\ CycleReachable
    /\ Len(files) >= 3

\* C7 (as claimed): compiling the same unchanged entry file, which has at
\* least one import, a second time in the same process ends as the first
\* compilation did.
C7_SecondRunSameOutcome ==
    (Len(outcomes) >= 2 /\ src["A"].state = "ok" /\ Len(src["A"].imports) >= 1)
    => outcomes[2] = outcomes[1]

----------------------------------------------------------------------------
(* What the claims about the final checker speak of *)

IsSimple(node) == node.kind \in {"FinalDeclaration", "ExpressionStatement"}
SimpleAt(body) == {j \in 1..Len(body) : IsSimple(body[j])}
FunctionsAt(body) == {j \in 1..Len(body) : body[j].kind = "FunctionDeclaration"}

\* the statements of the unit: the node, its place, the function, method or
\* class whose body holds it (owner; <<>> at top level), the scope it is in
TopLevelStatements ==
    {[node |-> ast[i], at |-> <<i>>, owner |-> <<>>, scope |-> "global",
      where |-> "top"] : i \in SimpleAt(ast)}
FunctionStatements ==
    UNION {{[node |-> ast[i].body[j], at |-> <<i, j>>, owner |-> <<i>>,
             scope |-> ast[i].name, where |-> "function"] : j \in SimpleAt(ast[i].body)}
           : i \in FunctionsAt(ast)}
ClassStatements ==
    UNION {{[node |-> ast[i].body[k], at |-> <<i, k>>, owner |-> <<i>>,
             scope |-> ast[i].name, where |-> "class"] : k \in SimpleAt(ast[i].body)}
           : i \in DeclaredClasses(ast)}
MethodStatements ==
    UNION {UNION {{[node |-> ast[i].body[k].body[j], at |-> <<i, k, j>>,
                    owner |-> <<i, k>>, scope |-> ast[i].body[k].name,
                    where |-> "method"] : j \in SimpleAt(ast[i].body[k].body)}
                  : k \in FunctionsAt(ast[i].body)}
           : i \in DeclaredClasses(ast)}
Statements ==
    TopLevelStatements \cup FunctionStatements \cup ClassStatements \cup MethodStatements
FinalDeclarations == {s \in Statements : s.node.kind = "FinalDeclaration"}
Assignments == {s \in Statements : s.node.kind = "ExpressionStatement"}

\* p comes before q in the source text
Before(p, q) ==
    \E k \in 1..Len(p) :
        /\ k <= Len(q)
        /\ \A h \in 1..(k - 1) : p[h] = q[h]
        /\ p[k] < q[k]

Flagged(a) == \E k \in 1..Len(errors) : errors[k] = ReassignError(a.node.name, a.at)

\* the names reachable from a class name through the declared bases, in one
\* step or more
BasesOf(name) ==
    UNION {Range(ast[i].bases) : i \in {i \in DeclaredClasses(ast) : ast[i].name = name}}
RECURSIVE AncestorsFrom(_)
AncestorsFrom(names) ==
    LET more == names \cup UNION {BasesOf(n) : n \in names}
    IN IF more = names THEN names ELSE AncestorsFrom(more)
Ancestors(name) == AncestorsFrom(BasesOf(name))
DeclaresFinal(name, m) ==
    \E i \in DeclaredClasses(ast) :
        /\ ast[i].name = name
        /\ \E k \in FunctionsAt(ast[i].body) :
              ast[i].body[k].name = m /\ ast[i].body[k].is_final
OverrideReported(cls, m) ==
    \E k \in 1..Len(errors) :
        /\ errors[k].msg = "cannot override final method"
        /\ errors[k].cls = cls
        /\ errors[k].name = m

----------------------------------------------------------------------------
(* Claims C8..C10: the final checker *)

\* C8: when an assignment to the identifier x, at top level or directly in
\* the body of a function or of a method, comes after a final declaration of
\* x that is in the same function or method body or at top level, check
\* returns False and records the error 'Cannot reassign final variable x'
\* for that assignment.
C8_ReassignmentFlagged ==
    fpc = "done"
    => \A a \in Assignments :
          (/\ a.where \in {"top", "function", "method"}
           /\ \E d \in FinalDeclarations :
                 /\ d.node.name = a.node.name
                 /\ Before(d.at, a.at)
                 /\ (d.owner = <<>> \/ d.owner = a.owner))
          => (result = "false" /\ Flagged(a))

C8_Witness ==
    /\ fpc = "done"
    /\ result = "false"
    /\ \E a \in Assignments, d \in FinalDeclarations :
          /\ a.where = "method"
          /\ d.owner = <<>>
          /\ d.node.name = a.node.name
          /\ Before(d.at, a.at)
          /\ Flagged(a)

\* C9: the error 'Class C cannot override final method m defined in B' is
\* reported for a method m declared in class C exactly when some class
\* reachable from C through the declared bases of the unit, at any depth,
\* declares a final method named m; the B of every such error is a class
\* reachable from the error's class that declares its method final, and the
\* error's class declares the method; check returns True exactly when there
\* is no error.  (The classes of a unit have distinct names.)
C9_OverrideReportedIffInherited ==
    fpc = "done"
    => /\ \A i \in DeclaredClasses(ast) : \A k \in FunctionsAt(ast[i].body) :
             OverrideReported(ast[i].name, ast[i].body[k].name)
             <=> \E b \in Ancestors(ast[i].name) : DeclaresFinal(b, ast[i].body[k].name)
       /\ \A e \in 1..Len(errors) :
             /\ errors[e].msg = "cannot override final method"
             /\ errors[e].base \in Ancestors(errors[e].cls)
             /\ DeclaresFinal(errors[e].base, errors[e].name)
             /\ \E i \in DeclaredClasses(ast) :
                   /\ ast[i].name = errors[e].cls
                   /\ \E k \in FunctionsAt(ast[i].body) :
                         ast[i].body[k].name = errors[e].name
       /\ (result = "true") <=> (errors = <<>>)

C9_Witness ==
    /\ fpc = "done"
    /\ Len(errors) = 1
    /\ errors[1].cls # errors[1].base
    /\ errors[1].base \notin BasesOf(errors[1].cls)
    /\ Cardinality(DeclaredClasses(ast)) = 3

\* C10 (as claimed): an assignment to x at top level, or in the body of a
\* function or method g, is flagged only if x is declared final at top level
\* or in the body of a function or method named g.
C10_FinalsPerScope ==
    fpc = "done"
    => \A a \in Assignments :
          (a.where \in {"top", "function", "method"} /\ Flagged(a))
          => \E d \in FinalDeclarations :
                /\ d.node.name = a.node.name
                /\ (d.owner = <<>> \/ d.scope = a.scope)

----------------------------------------------------------------------------
(* Claim C11: the interface checker *)

\* the parameter types of a list of parameters, an unannotated one as 'Any'
TypesOf(params) ==
    [i \in 1..Len(params) |->
        IF params[i].type_annotation = NoAnnotation THEN "Any"
        ELSE params[i].type_annotation]
WithoutSelf(params) == SelectSeq(params, LAMBDA p : p.name # "self")
Implements(method, sig) ==
    /\ method.kind = "FunctionDeclaration"
    /\ method.name = sig.name
    /\ TypesOf(WithoutSelf(method.params)) = TypesOf(sig.params)
    /\ method.return_type = sig.return_type
SignaturesListSelf ==
    \E d \in DeclaredInterfaces(ast) : \E s \in 1..Len(ast[d].methods) :
        \E p \in 1..Len(ast[d].methods[s].params) : ast[d].methods[s].params[p].name = "self"
Conforms ==
    \A i \in DeclaredClasses(ast) : \A j \in 1..Len(ast[i].interfaces) :
        \E d \in DeclaredInterfaces(ast) :
            /\ ast[d].name = ast[i].interfaces[j]
            /\ \A s \in 1..Len(ast[d].methods) :
                  \E k \in 1..Len(ast[i].body) : Implements(ast[i].body[k], ast[d].methods[s])

\* C11 (as claimed): when no signature of an interface lists self,
\* InterfaceChecker.check returns True exactly when, for every class and every
\* interface it implements, the interface is declared and each of its
\* signatures has a method of the class body with the same name, the same
\* parameter types once self is dropped (unannotated as 'Any') and the same
\* return type.
C11_TrueIffConforms ==
    (interface_checker.result # "none" /\ ~SignaturesListSelf)
    => ((interface_checker.result = "true") <=> Conforms)

----------------------------------------------------------------------------
(* Claims C15 to C17: the method overload resolver *)

\* the classes of the parsed unit, as positions in its body
OwnerPositions == {c \in 1..Len(ast) : ast[c].kind = "ClassDeclaration"}
\* the methods of the class at position c, as positions in its body
MethodPositions(c) ==
    {j \in 1..Len(ast[c].body) : ast[c].body[j].kind = "FunctionDeclaration"}
\* what a signature key is made of besides the name: the annotation of each
\* parameter, 'any' when absent
KeyTypes(f) ==
    [i \in 1..Len(f.params) |->
        IF f.params[i].type_annotation = NoType THEN <<"a", "n", "y">>
        ELSE f.params[i].type_annotation]
SameKey(f, g) == f.name = g.name /\ KeyTypes(f) = KeyTypes(g)
\* the methods of class c that repeat an earlier method of the class
Repeated(c) ==
    {j \in MethodPositions(c) :
        \E i \in MethodPositions(c) : i < j /\ SameKey(ast[c].body[i], ast[c].body[j])}
\* the methods of class c that share their name with another one
Overloads(c) ==
    {j \in MethodPositions(c) :
        \E i \in MethodPositions(c) : i # j /\ ast[c].body[i].name = ast[c].body[j].name}
\* the overload table of an owner, empty when the owner has none
TableOf(owner) ==
    IF ODHas(overload_resolver.file.method_overload_table, owner)
    THEN ODGet(overload_resolver.file.method_overload_table, owner)
    ELSE <<>>
\* the errors about method n of class c
DuplicateErrors(c, n) ==
    {k \in 1..Len(overload_resolver.errors) :
        /\ overload_resolver.errors[k].msg = "Duplicate overload"
        /\ overload_resolver.errors[k].cls = ast[c].name
        /\ overload_resolver.errors[k].method = n}

\* C15: MethodOverloadResolver.check returns False exactly when some class
\* declares two methods of one name with equal signature keys; every method
\* that repeats an earlier one adds one 'Duplicate overload' error, keeps its
\* name and adds no entry to the overload table.
C15_DuplicateOverloads ==
    overload_resolver.result # "none" =>
        /\ (overload_resolver.result = "false") <=> (\E c \in OwnerPositions : Repeated(c) # {})
        /\ \A c \in OwnerPositions :
            /\ \A n \in OverloadNames :
                  Cardinality(DuplicateErrors(c, n))
                    = Cardinality({j \in Repeated(c) : ast[c].body[j].name = n})
            /\ \A j \in Repeated(c) :
                  overload_resolver.file.ast[c].body[j].name = ast[c].body[j].name
            /\ Len(TableOf(ast[c].name)) = Cardinality(Overloads(c) \ Repeated(c))
        /\ \A k \in 1..Len(overload_resolver.errors) :
              \E c \in OwnerPositions :
                  k \in DuplicateErrors(c, overload_resolver.errors[k].method)

\* a class with two overloads of which one is repeated has been resolved
C15_Witness ==
    /\ overload_resolver.result = "false"
    /\ \E c \in OwnerPositions :
          /\ Repeated(c) # {}
          /\ Len(TableOf(ast[c].name)) >= 2

\* the methods of class c the resolver gave another name
Renamed(c) ==
    {j \in MethodPositions(c) :
        overload_resolver.file.ast[c].body[j].name # ast[c].body[j].name}

\* C16: after the overload resolver has run, the renamed names in the
\* overload table of a class are pairwise distinct, over all overload groups
\* of the class, and no renamed method has the name of another method of the
\* class.
C16_OverloadInjectivity ==
    overload_resolver.result # "none" =>
        \A c \in OwnerPositions :
            /\ \A a, b \in 1..Len(TableOf(ast[c].name)) :
                  a # b => TableOf(ast[c].name)[a].val # TableOf(ast[c].name)[b].val
            /\ \A j \in Renamed(c) : \A i \in MethodPositions(c) :
                  i # j => overload_resolver.file.ast[c].body[i].name
                             # overload_resolver.file.ast[c].body[j].name

\* the functions declared at the top level of the parsed unit
FreeFunctions == {i \in 1..Len(ast) : ast[i].kind = "FunctionDeclaration"}

\* C17: two or more free functions of one name form an overload group with
\* entries in the overload table under the owner "__module__", and two free
\* functions with equal signature keys give a 'Duplicate overload' error.
C17_FreeFunctionsResolved ==
    overload_resolver.result # "none" =>
        /\ (\E i, j \in FreeFunctions : i < j /\ ast[i].name = ast[j].name)
              => Len(TableOf("__module__")) >= 1
        /\ (\E i, j \in FreeFunctions : i < j /\ SameKey(ast[i], ast[j]))
              => (/\ overload_resolver.result = "false"
                  /\ \E k \in 1..Len(overload_resolver.errors) :
                        /\ overload_resolver.errors[k].msg = "Duplicate overload"
                        /\ overload_resolver.errors[k].cls = "__module__")

----------------------------------------------------------------------------
(* Claims C18 and C19: the symbol table *)

\* the classes, data classes and enums at the top level of the parsed unit
ClassLike == {"ClassDeclaration", "DataClassDeclaration", "EnumDeclaration"}
DeclaredClassLike == {c \in 1..Len(ast) : ast[c].kind \in ClassLike}
\* those whose name no other of them has
DistinctlyNamed ==
    {c \in DeclaredClassLike :
        \A d \in DeclaredClassLike : d # c => ast[d].name # ast[c].name}
\* the methods named n of a class body, in declaration order
RECURSIVE MethodsNamed(_, _)
MethodsNamed(body, n) ==
    IF body = <<>> THEN <<>>
    ELSE (IF Head(body).kind = "FunctionDeclaration" /\ Head(body).name = n
          THEN <<Head(body)>> ELSE <<>>) \o MethodsNamed(Tail(body), n)
\* the scope holds the parameters of the method
HoldsParameters(scope, f) ==
    \A i \in 1..Len(f.params) :
        /\ f.params[i].name \in DOMAIN scope.variables
        /\ scope.variables[f.params[i].name].type_annotation
              = f.params[i].type_annotation

\* C18: once SymbolTableBuilder.check has run, every top-level class, data
\* class and enum whose name is distinct has a scope of its name; its entry
\* in classes lists its methods under their declared names, in declaration
\* order; and every method has a scope "<Class>.<method>" that holds the
\* parameters of the method.
C18_ClassScopesAndMethods ==
    symbol_table.result # "none" =>
        \A c \in DistinctlyNamed :
            /\ ast[c].name \in DOMAIN symbol_table.scopes
            /\ ast[c].name \in DOMAIN symbol_table.classes
            /\ \A n \in SymbolMethodNames :
                  LET declared == MethodsNamed(ast[c].body, n)
                      listed == Get(symbol_table.classes[ast[c].name].methods, n, <<>>)
                  IN /\ Len(listed) = Len(declared)
                     /\ \A k \in 1..Len(declared) :
                           /\ listed[k].name = n
                           /\ listed[k].params = declared[k].params
                           /\ (ast[c].name \o "." \o n) \in DOMAIN symbol_table.scopes
                           /\ HoldsParameters(symbol_table.scopes[ast[c].name \o "." \o n],
                                              declared[k])

\* the declarations of the unit that bear the name of an earlier declaration
\* of their kind
Collisions ==
    {j \in 1..Len(ast) :
        \E i \in 1..Len(ast) :
            /\ i < j
            /\ ast[i].name = ast[j].name
            /\ \/ ast[i].kind \in ClassLike /\ ast[j].kind \in ClassLike
               \/ ast[i].kind = "InterfaceDeclaration" /\ ast[j].kind = "InterfaceDeclaration"}
\* the last declaration with the name and the kind of declaration j
IsLast(j) ==
    \A k \in 1..Len(ast) :
        (k > j /\ ast[k].name = ast[j].name)
            => ((ast[k].kind \in ClassLike) # (ast[j].kind \in ClassLike))

\* C19: when two classes or two interfaces of a unit have the same name, the
\* later one is the one the symbol table holds, and the verification of the
\* unit (symbol table builder, interface checker) gives a diagnostic.
C19_CollisionDiagnosed ==
    (fpc = "done" /\ Collisions # {}) =>
        /\ \A j \in Collisions :
              IsLast(j) =>
                 IF ast[j].kind \in ClassLike
                 THEN symbol_table.classes[ast[j].name].node = ast[j]
                 ELSE symbol_table.interfaces[ast[j].name].node = ast[j]
        /\ \/ symbol_table.result = "false"
           \/ interface_checker.errors # <<>>

----------------------------------------------------------------------------
(* Claims C12 and C13: the type checker's calls.  The statements of these  *)
(* units are statements of the module: the checker visits them in their    *)
(* order, in the scope "global", and what it has recorded when it comes to *)
(* statement k is what it records on the statements before k.              *)

\* the checker when it comes to statement k of the unit (k = Len(ast) + 1:
\* when it is through)
CheckerAt(k) ==
    type_visit_body(type_checker_started(new_type_checker), symbol_table,
                    SubSeq(ast, 1, k - 1), 1)

\* the unit is type checked with its symbol table
TypeChecked == fpc = "done" /\ symbol_table.result = "true"

\* statement k is a call recv.m(args) whose receiver's inferred type is a
\* class of the unit that declares a method m
MethodCalls ==
    {k \in 1..Len(ast) :
        /\ ast[k].kind = "ExpressionStatement"
        /\ ast[k].expression.kind = "CallExpression"
        /\ ast[k].expression.callee.kind = "AttributeExpression"
        /\ Len(methods_of(symbol_table,
                          infer_expression_type(symbol_table, "global",
                                                ast[k].expression.callee.object),
                          ast[k].expression.callee.attribute)) > 0}

ReceiverType(k) ==
    infer_expression_type(symbol_table, "global", ast[k].expression.callee.object)
OverloadsAt(k) ==
    Range(methods_of(symbol_table, ReceiverType(k), ast[k].expression.callee.attribute))
ArgTypes(k) == infer_arguments(symbol_table, "global", ast[k].expression.arguments)
\* the parameter is typed with a type parameter of the receiver's class
IsGeneric(k, param) ==
    param.type_annotation \in Range(symbol_table.classes[ReceiverType(k)].type_parameters)

\* the bindings recorded for the receiver variable of call k, in this checker
BindingsOf(k, tc) ==
    IF ast[k].expression.callee.object.kind = "IdentifierExpression"
    THEN Get(tc.generic_bindings, ast[k].expression.callee.object.name, <<>>)
    ELSE <<>>

\* the checker accepts statement k: it records nothing on it
AcceptedBy(before, after) == after.errors = before.errors
\* the checker rejects call k: it records the one error of this call
RejectedBy(k, before, after) ==
    after.errors = Append(before.errors,
                          NoOverload(ReceiverType(k), ast[k].expression.callee.attribute,
                                     ArgTypes(k)))

\* as many parameters as arguments, and every non-generic parameter's
\* annotation equal to the inferred type of its argument
MatchesRegular(k, f, arg_types) ==
    /\ Len(f.params) = Len(arg_types)
    /\ \A i \in 1..Len(f.params) :
          ~IsGeneric(k, f.params[i]) =>
              /\ f.params[i].type_annotation # NoAnnotation
              /\ f.params[i].type_annotation = arg_types[i]

\* and every parameter annotated, every argument's type inferred, and every
\* generic parameter given the type bound to it for the receiver variable,
\* the same as every other parameter of its type
MatchesGeneric(k, f, arg_types, bindings) ==
    /\ MatchesRegular(k, f, arg_types)
    /\ \A i \in 1..Len(f.params) :
          /\ f.params[i].type_annotation # NoAnnotation
          /\ arg_types[i] # NoAnnotation
          /\ IsGeneric(k, f.params[i]) =>
                /\ f.params[i].type_annotation \in DOMAIN bindings =>
                      arg_types[i] = bindings[f.params[i].type_annotation]
                /\ \A j \in 1..Len(f.params) :
                      f.params[j].type_annotation = f.params[i].type_annotation =>
                          arg_types[j] = arg_types[i]

\* the claim as it stands, of call k
AcceptedIffRegular(k, before, after) ==
    /\ AcceptedBy(before, after) <=> \E f \in OverloadsAt(k) : MatchesRegular(k, f, ArgTypes(k))
    /\ ~AcceptedBy(before, after) =>
          RejectedBy(k, before, after) /\ type_checker.result = "false"

AcceptedIffGeneric(k, before, after) ==
    /\ AcceptedBy(before, after)
          <=> \E f \in OverloadsAt(k) :
                 MatchesGeneric(k, f, ArgTypes(k), BindingsOf(k, before))
    /\ ~AcceptedBy(before, after) =>
          RejectedBy(k, before, after) /\ type_checker.result = "false"

Conflicts(k, f, arg_types, bindings) ==
    \E i \in 1..Len(f.params) :
        /\ i <= Len(arg_types)
        /\ IsGeneric(k, f.params[i])
        /\ f.params[i].type_annotation \in DOMAIN bindings
        /\ arg_types[i] # bindings[f.params[i].type_annotation]
\* the overload gives two parameters typed T two types
Splits(k, f, arg_types) ==
    \E i, j \in 1..Len(f.params) :
        /\ i <= Len(arg_types) /\ j <= Len(arg_types)
        /\ IsGeneric(k, f.params[i])
        /\ f.params[j].type_annotation = f.params[i].type_annotation
        /\ arg_types[i] # arg_types[j]
\* every parameter of the overload is typed with a bound type parameter and
\* given the type bound to it
PassesBound(k, f, arg_types, bindings) ==
    /\ Len(f.params) = Len(arg_types)
    /\ Len(f.params) > 0
    /\ \A i \in 1..Len(f.params) :
          /\ IsGeneric(k, f.params[i])
          /\ f.params[i].type_annotation \in DOMAIN bindings
          /\ arg_types[i] = bindings[f.params[i].type_annotation]
\* the bindings of this checker are among those of the later one, unchanged
BindingsKept(before, after) ==
    \A v \in DOMAIN before.generic_bindings :
        /\ v \in DOMAIN after.generic_bindings
        /\ \A t \in DOMAIN before.generic_bindings[v] :
              /\ t \in DOMAIN after.generic_bindings[v]
              /\ after.generic_bindings[v][t] = before.generic_bindings[v][t]

ConsistentCall(k, before, after) ==
    /\ (\A f \in OverloadsAt(k) :
            Conflicts(k, f, ArgTypes(k), BindingsOf(k, before)) \/ Splits(k, f, ArgTypes(k)))
          => RejectedBy(k, before, after)
    /\ (\E f \in OverloadsAt(k) : PassesBound(k, f, ArgTypes(k), BindingsOf(k, before)))
          => AcceptedBy(before, after)

----------------------------------------------------------------------------
(* Claim C14: the type checker's assignments.  The checker visits the      *)
(* statements of the module in their order, in the scope "global", and the *)
(* statement of the function f in the scope "f".                           *)

\* the statements the checker visits, in the order of the visit, each with
\* the scope it is visited in
RECURSIVE VisitedFrom(_)
VisitedFrom(i) ==
    IF i > Len(ast) THEN <<>>
    ELSE (CASE ast[i].kind = "ExpressionStatement" ->
                  <<[scope |-> "global", node |-> ast[i]]>>
            [] ast[i].kind = "FunctionDeclaration" ->
                  [j \in 1..Len(ast[i].body) |-> [scope |-> "f", node |-> ast[i].body[j]]]
            [] OTHER -> <<>>)
         \o VisitedFrom(i + 1)
Visited == VisitedFrom(1)

\* the checker after the first n of these statements
RECURSIVE VisitedBy(_, _, _)
VisitedBy(tc, visited, n) ==
    IF n = 0 THEN tc
    ELSE [type_visit_expression_statement(
              [VisitedBy(tc, visited, n - 1) EXCEPT
                  !.scope_stack = IF visited[n].scope = "global" THEN <<"global">>
                                  ELSE <<"global", visited[n].scope>>],
              symbol_table, visited[n].node)
          EXCEPT !.scope_stack = <<"global">>]

\* the errors about a missing annotation among these
RECURSIVE MustDeclareErrors(_)
MustDeclareErrors(errs) ==
    IF errs = <<>> THEN <<>>
    ELSE (IF Head(errs).kind = MustDeclare("").kind THEN <<Head(errs)>> ELSE <<>>)
         \o MustDeclareErrors(Tail(errs))

\* an unannotated assignment to an identifier with no annotated or
\* inferred-typed symbol visible from its scope
Unannotated(s) ==
    /\ s.node.expression.kind = "AssignmentExpression"
    /\ s.node.expression.type_annotation = NoAnnotation
    /\ s.node.expression.target.kind = "IdentifierExpression"
    /\ lookup_variable(symbol_table, s.scope, s.node.expression.target.name) = NoAnnotation
\* the value is a literal or a call whose callee names a class of the unit
LiteralOrConstructor(value) ==
    \/ value.kind = "LiteralExpression"
    \/ /\ value.kind = "CallExpression"
       /\ value.callee.kind = "IdentifierExpression"
       /\ \E i \in 1..Len(ast) :
             ast[i].kind = "ClassDeclaration" /\ ast[i].name = value.callee.name

AssignmentSettled(s, before, after) ==
    IF LiteralOrConstructor(s.node.expression.value)
    THEN MustDeclareErrors(after.errors) = MustDeclareErrors(before.errors)
    ELSE MustDeclareErrors(after.errors) =
             Append(MustDeclareErrors(before.errors),
                    MustDeclare(s.node.expression.target.name))

AssignmentsSettled(tc, visited) ==
    /\ type_checker.errors = VisitedBy(tc, visited, Len(visited)).errors
    /\ \A n \in 1..Len(visited) :
          Unannotated(visited[n]) =>
              AssignmentSettled(visited[n], VisitedBy(tc, visited, n - 1),
                                VisitedBy(tc, visited, n))

----------------------------------------------------------------------------
(* Claim C20: a statement that starts with "[" *)

\* parse_statement has been through the first statement
StatementParsed ==
    parser.tokens # <<>> /\ (parser.current # 0 \/ parser.error # "" )
\* the position of the first "]"
ClosingBracket ==
    CHOOSE i \in 1..Len(parser.tokens) :
        /\ parser.tokens[i].type = "RBRACKET"
        /\ \A j \in 1..(i - 1) : parser.tokens[j].type # "RBRACKET"
\* what is between the brackets, without the commas
BracketValues ==
    [i \in 1..Len(list_elements(parser.tokens, 2)) |->
        list_elements(parser.tokens, 2)[i].value]
\* the next token after the "]", skipping newlines and comments
NextAfterBracket == peek_next_non_newline_type(parser, ClosingBracket)
\* ... starts a class or a function
StartsDeclaration ==
    \/ NextAfterBracket \in {"ABSTRACT", "CLASS", "DEF"}
    \/ /\ NextAfterBracket = "FINAL"
       /\ \E i \in ClosingBracket..Len(parser.tokens) :
             /\ parser.tokens[i].type = "FINAL"
             /\ parser.tokens[i + 1].type = "CLASS"

\* C20: when the next token after the closing "]" (newlines and comments
\* skipped) starts a class or function declaration, the contents of the
\* brackets are that declaration's compiler_flags; when it is no declaration
\* keyword, the statement is parsed from the "[" as a list literal of these
\* contents, without a parse error, whatever the brackets contain.  (A final
\* declaration of a variable after the brackets is left open here.)
C20_FlagsOrListLiteral ==
    StatementParsed =>
        IF StartsDeclaration
        THEN /\ parser.error = ""
             /\ parser.statement.kind \in {"ClassDeclaration", "FunctionDeclaration"}
             /\ parser.statement.compiler_flags = BracketValues
        ELSE NextAfterBracket # "FINAL" =>
                /\ parser.error = ""
                /\ parser.statement =
                       ExpressionStatement(
                           ListExpression(list_elements(parser.tokens, 2)))

----------------------------------------------------------------------------
(* Claim C21 *)

\* the statements of a body with every if, while, for and switch replaced
\* by the statements it holds
RECURSIVE Unnested(_)
RECURSIVE UnnestedCases(_)
Unnested(body) ==
    IF body = <<>> THEN <<>>
    ELSE LET node == Head(body)
             here == CASE node.kind = "IfStatement" ->
                            Unnested(node.then_body) \o Unnested(node.else_body)
                      [] node.kind \in {"WhileStatement", "ForStatement"} ->
                            Unnested(node.body)
                      [] node.kind = "SwitchStatement" ->
                            UnnestedCases(node.cases) \o Unnested(node.default)
                      [] node.kind = "FunctionDeclaration" ->
                            <<[node EXCEPT !.body = Unnested(node.body)]>>
                      [] OTHER -> <<node>>
         IN here \o Unnested(Tail(body))
UnnestedCases(cases) ==
    IF cases = <<>> THEN <<>>
    ELSE Unnested(Head(cases).body) \o UnnestedCases(Tail(cases))

\* the variables the errors of a run name, in the order of the errors
ReassignedIn(errs) == [i \in DOMAIN errs |-> errs[i].name]

\* the errors of the check of a unit
CheckedErrors(body) ==
    visit_nodes([scope |-> "global", fv |-> [s \in {"global"} |-> {}],
                 errors |-> <<>>, cn |-> <<>>, fm |-> <<>>], body, <<>>, 1).errors

\* the unit holds a nested block with an assignment
HoldsNestedAssignment ==
    /\ ast # <<>>
    /\ Unnested(ast) # ast
    /\ Len(Unnested(ast)[1].body) > 1

\* C21: the check of a unit reports the reassignments of final variables
\* that it reports for the same unit with every nested assignment moved out
\* of its if, while, for or switch into the enclosing body
C21_NestedReassignmentFlagged ==
    fpc = "done" /\ HoldsNestedAssignment
        => ReassignedIn(errors) = ReassignedIn(CheckedErrors(Unnested(ast)))

\* the same for the units whose nested block is a while or a for body
LoopBodiesFlagged ==
    fpc = "done" /\ HoldsNestedAssignment
         /\ ast[1].body[2].kind \in {"WhileStatement", "ForStatement"}
        => ReassignedIn(errors) = ReassignedIn(CheckedErrors(Unnested(ast)))

----------------------------------------------------------------------------
(* Claim C22.  The classes and the methods are those of the parsed unit. *)

\* the names of the methods class number i declares
DeclaredMethodNames(i) == {ast[i].body[k].name : k \in 1..Len(ast[i].body)}

\* class number i declares a method that an ancestor declares final
OverridesFinal(i) ==
    \E m \in DeclaredMethodNames(i) : \E a \in Ancestors(ast[i].name) : DeclaresFinal(a, m)

\* C22: when the final checker has run after the overload resolver on a unit
\* in which a class declares a method named as a final method of one of its
\* ancestors, overloaded or not, the unit is rejected
C22_FinalOverrideOfOverloadRejected ==
    fpc = "done" /\ (\E i \in 1..Len(ast) : OverridesFinal(i)) => result = "false"

\* the same for the units in which no method is overloaded
OverrideWithoutOverloadRejected ==
    fpc = "done" /\ (\E i \in 1..Len(ast) : OverridesFinal(i))
         /\ overload_resolver.file.ast = ast
        => result = "false"

----------------------------------------------------------------------------
(* Claims C23 and C24.  The unit is the interface I with its signature of m *)
(* and the class A that implements I.                                       *)

SignatureOfM == ast[1].methods[1]
MethodsOfA == ast[2].body
InterfaceChecked == fpc = "done" /\ interface_checker.result # "none"

\* A declares two or more methods, with different parameter types
DeclaresOverloads ==
    /\ Len(MethodsOfA) >= 2
    /\ \A j, k \in 1..Len(MethodsOfA) :
          j # k => get_param_signature(MethodsOfA[j].params)
                       # get_param_signature(MethodsOfA[k].params)

\* a method with the parameter types and the return type of the signature
MatchesExactly(method) ==
    /\ get_param_signature(method.params) = get_param_signature(SignatureOfM.params)
    /\ method.return_type = SignatureOfM.return_type

\* C23: when the interface checker has run after the overload resolver on a
\* unit whose class declares several overloads of m, one of them with
\* exactly the parameter types and the return type of the interface's
\* signature of m, it reports no error
C23_MatchingOverloadConforms ==
    (/\ InterfaceChecked
     /\ DeclaresOverloads
     /\ \E k \in 1..Len(MethodsOfA) : MatchesExactly(MethodsOfA[k]))
    => interface_checker.errors = <<>>

\* the parameters list self first
ListsSelfFirst(params) == params # <<>> /\ params[1].name = "self"

\* C24: when the signature of m and the one method of the class both list
\* self as their first parameter and agree on the types of the other
\* parameters and on the return type, the interface checker reports no error
C24_ReceiverExcludedOnBothSides ==
    (/\ InterfaceChecked
     /\ Len(MethodsOfA) = 1
     /\ ListsSelfFirst(SignatureOfM.params)
     /\ ListsSelfFirst(MethodsOfA[1].params)
     /\ get_param_signature(Tail(MethodsOfA[1].params))
            = get_param_signature(Tail(SignatureOfM.params))
     /\ MethodsOfA[1].return_type = SignatureOfM.return_type)
    => interface_checker.errors = <<>>

\* a class with one method conforms when the signature lists no self and the
\* method agrees with it once its own self is dropped
ReceiverExcludedInClass ==
    (/\ InterfaceChecked
     /\ Len(MethodsOfA) = 1
     /\ ~ListsSelfFirst(SignatureOfM.params)
     /\ get_method_param_signature(MethodsOfA[1])
            = get_param_signature(SignatureOfM.params)
     /\ MethodsOfA[1].return_type = SignatureOfM.return_type)
    => interface_checker.errors = <<>>

----------------------------------------------------------------------------
(* Claim C26 *)

\* a declared class is its own ancestor
CyclicInheritance == \E i \in DeclaredClasses(ast) : ast[i].name \in Ancestors(ast[i].name)

\* a class extends a class the unit does not declare
UndeclaredBase ==
    \E i \in DeclaredClasses(ast) : \E b \in Range(ast[i].bases) :
        \A j \in DeclaredClasses(ast) : ast[j].name # b

\* the check that ran step by step leaves what FinalChecker.check leaves
SteppedAsChecked ==
    fpc = "done" =>
        LET st == final_checker_checked(ast, "global")
        IN /\ errors = st.errors
           /\ final_variables = st.fv
           /\ class_nodes = st.cn
           /\ final_methods_by_class = st.fm

\* C26: a FinalChecker.check that was called returns, whatever inheritance
\* graph the unit declares
C26_CheckReturns == (fpc = "check") ~> (fpc = "done")

\* a check has returned on a unit with a cycle of bases
C26_Witness == fpc = "done" /\ CyclicInheritance

\* a check has returned on a unit with a base that is not declared
ReturnedWithUndeclaredBase == fpc = "done" /\ UndeclaredBase

----------------------------------------------------------------------------
(* Claims C27 and C28: the errors of resolve_imports *)

\* the file the innermost walk works on
WalkedFile == files[wstack[Len(wstack)].fid]

\* this step ends the run with this exception
Raises(what) == pc = "walk" /\ pc' = "done" /\ outcomes' = Append(outcomes, what)

\* a directory of the lookup paths holds a .spc or a .py candidate for the
\* module, as far as the directories were looked at
HasCandidate(fsv, lookup, m) ==
    \E k \in 1..Len(lookup) : kind_of(fsv, lookup[k], m) \in {"spc", "py"}

\* C27: when resolve_imports raises the 'Unresolved imports' ImportError,
\* an import statement of the file names a module that is not built in and
\* has no candidate in any lookup path
C27_UnresolvedOnlyIfMissing ==
    [][Raises("unresolved_imports")
       => \E k \in 1..Len(src'[WalkedFile.path[2]].imports) :
             LET m == src'[WalkedFile.path[2]].imports[k]
             IN m \notin Builtins /\ ~HasCandidate(fs', LOOKUP_PATHS', m)]_vars

\* the file an import statement of module m leads to: the candidate in the
\* first lookup path that holds one, as far as the directories were looked at
FirstCandidate(m) ==
    LET ks == {k \in 1..Len(WalkLookupPaths) :
                  kind_of(fs, WalkLookupPaths[k], m) \in {"spc", "py"}}
    IN IF ks = {} THEN {}
       ELSE {<<WalkLookupPaths[CHOOSE k \in ks : \A h \in ks : k <= h], m>>}

\* the import graph by the import statements of the files read so far
StatementsOf(p) ==
    IF fs[p] = "spc" /\ src[p[2]].state = "ok"
    THEN UNION {FirstCandidate(m) : m \in Range(src[p[2]].imports) \ Builtins}
    ELSE {}
RECURSIVE ImportedFrom(_)
ImportedFrom(ps) ==
    LET more == ps \cup UNION {StatementsOf(p) : p \in ps}
    IN IF more = ps THEN ps ELSE ImportedFrom(more)
CycleOfStatements ==
    \E p \in ImportedFrom({EntryPath}) : p \in ImportedFrom(StatementsOf(p))

\* every .spc file of that graph was read
GraphRead ==
    \A p \in ImportedFrom({EntryPath}) : fs[p] = "spc" => src[p[2]].state = "ok"

\* C28: when the first compilation of a process ends with the 'Circular
\* Import' ImportError and every file of the import graph reachable from
\* the entry file was read, that graph contains a cycle
C28_CircularOnlyIfCycle ==
    (pc = "done" /\ Len(outcomes) = 1 /\ outcomes[1] = "circular_import" /\ GraphRead)
    => CycleOfStatements

----------------------------------------------------------------------------
(* Claim C25 *)

\* the functions and methods the type checker visits in a body that it
\* visits in this scope, each with the scope name it pushes for it
RECURSIVE FunctionsPushed(_, _)
FunctionsPushed(scope, body) ==
    UNION {LET node == body[i]
               pushed == type_scope_name([scope_stack |-> <<scope>>], node)
           IN CASE node.kind = "ClassDeclaration" -> FunctionsPushed(node.name, node.body)
                [] node.kind = "FunctionDeclaration" ->
                      {[scope |-> pushed, node |-> node]}
                      \cup FunctionsPushed(pushed, node.body)
                [] OTHER -> {}
           : i \in 1..Len(body)}

\* the unit as the type checker was given it
UnitTypeChecked == with_resolved_names(ast, overload_resolver.file.ast)

\* the pushed scope is one the builder created, and the parameters of the
\* function resolve in it
ResolvesInside(f) ==
    /\ f.scope \in DOMAIN symbol_table.scopes
    /\ \A k \in 1..Len(f.node.params) :
          /\ f.node.params[k].name \in DOMAIN symbol_table.scopes[f.scope].variables
          /\ lookup_variable(symbol_table, f.scope, f.node.params[k].name)
                = f.node.params[k].type_annotation

\* C25: when the type checker has run after the symbol-table builder and
\* the overload resolver, every scope name it pushed for a function or a
\* method is a scope of the symbol table in which the parameters resolve
C25_PushedScopesBuilt ==
    (fpc = "done" /\ type_checker.result # "none")
    => \A f \in FunctionsPushed("global", UnitTypeChecked) : ResolvesInside(f)

\* the same for the units in which the resolver renamed nothing
ScopesBuiltWithoutOverloads ==
    (fpc = "done" /\ type_checker.result # "none" /\ UnitTypeChecked = ast)
    => \A f \in FunctionsPushed("global", UnitTypeChecked) : ResolvesInside(f)

----------------------------------------------------------------------------
(* Claims C29 and C30.  The unit is the class A with its method m, followed *)
(* by the functions and the statements that call m on their variable v.     *)

CallsChecked == fpc = "done" /\ symbol_table.result = "true" /\ Len(ast) >= 2

\* the method m of A, and the type of the argument of the call in a body
MethodOfA == ast[1].body[1]
ArgumentType(body) == literal_to_type(body[2].expression.arguments[1])

\* the errors of TypeChecker.check on a unit with this body
TypeErrors(body) ==
    type_checker_checked(new_type_checker, symbol_table_built(body), body).errors

\* the unit is A and one function, whose call passes an argument of the
\* declared type of x, which is not a type parameter
OneMatchingCall ==
    /\ Len(ast) = 2
    /\ ast[2].kind = "FunctionDeclaration"
    /\ MethodOfA.params[Len(MethodOfA.params)].type_annotation = ArgumentType(ast[2].body)
    /\ ast[1].type_parameters = <<>>

\* C29: a call v.m(a) of the method declared as m(self, x: T1), where the
\* inferred type of a is T1, is accepted by the type checker
C29_ReceiverNotCounted ==
    (CallsChecked /\ OneMatchingCall /\ ListsSelfFirst(MethodOfA.params))
    => type_checker.errors = <<>>

\* the same call of the method declared as m(x: T1) is accepted
AcceptedWithoutReceiver ==
    (CallsChecked /\ OneMatchingCall /\ ~ListsSelfFirst(MethodOfA.params))
    => type_checker.errors = <<>>

\* the functions of the unit one by one, then its top-level statements
\* together
CallingPieces ==
    LET funs == SelectSeq(SubSeq(ast, 2, Len(ast)), LAMBDA n : n.kind = "FunctionDeclaration")
        stmts == SelectSeq(SubSeq(ast, 2, Len(ast)), LAMBDA n : n.kind # "FunctionDeclaration")
    IN [k \in 1..Len(funs) |-> <<funs[k]>>] \o (IF stmts = <<>> THEN <<>> ELSE <<stmts>>)

RECURSIVE ErrorsOfPieces(_)
ErrorsOfPieces(pieces) ==
    IF pieces = <<>> THEN <<>>
    ELSE TypeErrors(<<ast[1]>> \o Head(pieces)) \o ErrorsOfPieces(Tail(pieces))

\* C30: the calls on the variable v of one function, or of the top level,
\* are checked as they are when the unit holds no other function: the type
\* checker reports for the unit the errors it reports for the class with
\* each function alone and with the top-level statements alone
C30_BindingsPerVariable ==
    CallsChecked => type_checker.errors = ErrorsOfPieces(CallingPieces)

\* the same for the units with one function or only top-level statements
OnePieceChecked ==
    (CallsChecked /\ Len(CallingPieces) = 1)
    => type_checker.errors = ErrorsOfPieces(CallingPieces)

====
